---- MODULE Spec2Model ----
(***************************************************************************)
(* Forensic ensemble of APEX-VERIFY-AI: ManipulationDetector.analyze and   *)
(* AIImageDetector.detect_ai_generated / _ensemble_decision; the cached    *)
(* analyze_image function of modal_ml_pipeline.py; the /api/verify handler *)
(* of main.py; WorkflowOrchestrator.process_image.                         *)
(*                                                                         *)
(* Floats are modelled as exact rationals <<n, d>> in lowest terms with    *)
(* d > 0; the IEEE not-a-number is the pair <<0, 0>>.  Every arithmetic    *)
(* operator propagates NaN and every comparison with NaN is false, as in   *)
(* Python.                                                                 *)
(***************************************************************************)
EXTENDS Integers, Sequences, FiniteSets, TLC

VARIABLES
    model_loaded,   \* AIImageDetector.model_loaded
    ai_threshold,   \* AIImageDetector.ai_threshold
    ela_quality,    \* ManipulationDetector.ela_quality
    threshold,      \* ManipulationDetector.threshold
    simple_model,   \* SimpleAnalyzer.model: "unset" before __init__, "loaded", "none"
    classifier_model, \* DeepfakeClassifier.model: "unset", "none", "untrained", "trained"
    runs,           \* the calls of the object under exercise so far, oldest first
    op,             \* the call that has run: "none", "analyze", "detect", "ensemble",
                    \* the call that is running: "analyzing", "detecting",
                    \* or the object under exercise: "simple", "classifier"
    inp,            \* its input
    out,            \* its result, or the results awaited so far while it is running
    verified_results, \* modal_ml_pipeline.verified_results: sha256 -> record
    clock,          \* the UTC clock that _utc_timestamp reads
    calls,          \* analyze_image: the locals of each container's current call
    history,        \* analyze_image: what the calls so far have computed and served
    backend,        \* main.py: the globals set by startup_event and the request served
    workflow        \* WorkflowOrchestrator: its fields and the locals of process_image

\* the state of the forensic ensemble and of the two model wrappers
ensemble_vars ==
    <<model_loaded, ai_threshold, ela_quality, threshold, simple_model,
      classifier_model, runs, op, inp, out>>

\* the state of the cached pipeline, of the HTTP backend and of the workflow
pipeline_vars == <<verified_results, clock, calls, history>>

service_vars == <<verified_results, clock, calls, history, backend, workflow>>

vars ==
    <<model_loaded, ai_threshold, ela_quality, threshold, simple_model,
      classifier_model, runs, op, inp, out,
      verified_results, clock, calls, history, backend, workflow>>

----------------------------------------------------------------------------
(* Rational arithmetic with Python float semantics for NaN, min and max.   *)

Abs(n) == IF n < 0 THEN -n ELSE n

RECURSIVE GCD(_, _)
GCD(a, b) == IF b = 0 THEN a ELSE GCD(b, a % b)

NaN == <<0, 0>>

IsNaN(a) == a[2] = 0

RNorm(n, d, g) ==
    IF d < 0 THEN <<(-n) \div g, (-d) \div g>> ELSE <<n \div g, d \div g>>

R(n, d) ==
    IF d = 0 THEN NaN
    ELSE IF n = 0 THEN <<0, 1>>
    ELSE IF d = 1 THEN <<n, 1>>
    ELSE RNorm(n, d, GCD(Abs(n), Abs(d)))

Zero == R(0, 1)
One == R(1, 1)
Half == R(1, 2)

RAdd(a, b) ==
    IF IsNaN(a) \/ IsNaN(b) THEN NaN
    ELSE IF a[2] = b[2] THEN R(a[1] + b[1], a[2])
    ELSE R(a[1] * b[2] + b[1] * a[2], a[2] * b[2])

RNeg(a) == IF IsNaN(a) THEN NaN ELSE <<-a[1], a[2]>>

RSub(a, b) == RAdd(a, RNeg(b))

RMul(a, b) ==
    IF IsNaN(a) \/ IsNaN(b) THEN NaN
    ELSE R(a[1] * b[1], a[2] * b[2])

\* a / b for b # 0 (Python raises ZeroDivisionError for b = 0: see PyDiv)
RDiv(a, b) ==
    IF IsNaN(a) \/ IsNaN(b) THEN NaN
    ELSE RMul(a, R(b[2], b[1]))

RLt(a, b) ==
    /\ ~IsNaN(a)
    /\ ~IsNaN(b)
    /\ IF a[2] = b[2] THEN a[1] < b[1]
       ELSE IF a[2] = 1 \/ b[2] = 1 THEN a[1] * b[2] < b[1] * a[2]
       ELSE LET g == GCD(a[2], b[2])
            IN  a[1] * (b[2] \div g) < b[1] * (a[2] \div g)

RGt(a, b) == RLt(b, a)

RLe(a, b) == ~IsNaN(a) /\ ~IsNaN(b) /\ ~RLt(b, a)

\* IEEE equality: NaN equals nothing, itself included
REq(a, b) == ~IsNaN(a) /\ ~IsNaN(b) /\ a = b

RAbs(a) == IF IsNaN(a) THEN NaN ELSE <<Abs(a[1]), a[2]>>

\* Python's min(a, b): a unless b < a
PyMin(a, b) == IF RLt(b, a) THEN b ELSE a

\* Python's max(a, b): a unless b > a
PyMax(a, b) == IF RGt(b, a) THEN b ELSE a

\* a value of the closed interval [0, 1]
InUnit(a) == RLe(Zero, a) /\ RLe(a, One)

----------------------------------------------------------------------------
(* Bounds of the model.                                                    *)

\* the unit interval is sampled in Steps steps
Steps == 2

\* the calls made on one SimpleAnalyzer or DeepfakeClassifier
MaxRuns == 2

\* sample points of [0, 1]
UnitGrid == {R(k, Steps) : k \in 0..Steps}

\* sample points of a non-negative statistic whose normalisation ceiling is c:
\* one below the ceiling and one beyond it
StatLow(c) == R(c, 4)
StatHigh(c) == R(2 * c, 1)
StatGrid(c) == {StatLow(c), StatHigh(c)}

----------------------------------------------------------------------------
(* AIImageDetector (backend/app/services/ai_image_detector.py)             *)
(* What an analyzer measures on the image is its input x: x.tag = "ok"     *)
(* with the measured value x.val, x.tag = "error" when the analyzer body   *)
(* raises, or the tag of a degenerate case.                                *)

Methods == <<"vit_analysis", "spectral_analysis", "artifact_analysis", "consistency_analysis">>

\* the weights dict of _ensemble_decision, in its iteration order
weights(m) ==
    CASE m = "vit_analysis" -> R(40, 100)
      [] m = "spectral_analysis" -> R(25, 100)
      [] m = "artifact_analysis" -> R(20, 100)
      [] m = "consistency_analysis" -> R(15, 100)

\* the dict every analyzer returns from its except branch
Unavailable(method) ==
    [score |-> Half, confidence |-> Zero, method |-> method, available |-> FALSE]

\* _vit_detection: v = "error" when preprocessing or inference raises,
\* otherwise v is the softmax probability of the AI class
vit_detection(loaded, v) ==
    IF ~loaded THEN Unavailable("vit")
    ELSE IF v.tag = "error" THEN Unavailable("vit")
    ELSE [score |-> v.val, confidence |-> PyMax(v.val, RSub(One, v.val)),
          method |-> "vit", available |-> TRUE]

\* np.var(radial_prof[1:min(50, len(radial_prof))]): the slice is empty for
\* a 1x1 image, and numpy's variance of an empty array is NaN
radial_variance(s) == IF s.tag = "empty" THEN NaN ELSE s.val

\* _spectral_analysis: s = "error" when imread/fft raises, "empty" when the
\* radial profile has a single bin, otherwise the variance of the profile
spectral_analysis(s) ==
    IF s.tag = "error" THEN Unavailable("spectral")
    ELSE LET spectral_variance == radial_variance(s)
             spectral_score == PyMin(RDiv(spectral_variance, R(10, 1)), One)
         IN  [score |-> spectral_score, confidence |-> R(75, 100),
              method |-> "spectral", available |-> TRUE]

\* _detect_grid_patterns: g = "error" when it raises, otherwise the number of
\* autocorrelation peaks above 0.7
detect_grid_patterns(g) ==
    IF g.tag = "error" THEN Half
    ELSE PyMin(RDiv(g.val, R(100, 1)), One)

\* _analyze_blur_consistency: b = "error" when it raises, "noblocks" when the
\* image has no 64x64 block in range, otherwise the variance of the block
\* Laplacian variances
analyze_blur_consistency(b) ==
    IF b.tag = "error" THEN Half
    ELSE IF b.tag = "noblocks" THEN Half
    ELSE PyMin(RDiv(b.val, R(10000, 1)), One)

\* _analyze_edge_coherence: e = "error" when it raises, "single" when
\* num_labels <= 1, otherwise the variance of the component areas
analyze_edge_coherence(e) ==
    IF e.tag = "error" THEN Half
    ELSE IF e.tag = "single" THEN Zero
    ELSE PyMin(RDiv(e.val, R(1000, 1)), One)

\* the record _artifact_detection returns when nothing raised in its body
ArtifactResult(grid_score, blur_score, edge_score) ==
    [score |-> RAdd(RAdd(RMul(grid_score, R(4, 10)), RMul(blur_score, R(3, 10))),
                    RMul(edge_score, R(3, 10))),
     confidence |-> R(80, 100),
     method |-> "artifacts",
     details |-> [grid_pattern |-> grid_score,
                  blur_inconsistency |-> blur_score,
                  edge_incoherence |-> edge_score],
     available |-> TRUE]

\* _artifact_detection: a = "error" when imread/cvtColor raises, otherwise
\* the inputs of the three sub-measures
artifact_detection(a) ==
    IF a.tag = "error" THEN Unavailable("artifacts")
    ELSE ArtifactResult(detect_grid_patterns(a.grid),
                        analyze_blur_consistency(a.blur),
                        analyze_edge_coherence(a.edge))

\* _check_lighting_consistency: l = "error" when it raises (region_size = 0),
\* "noregions" when region_means is empty, otherwise the variance of the
\* region means
check_lighting_consistency(l) ==
    IF l.tag = "error" THEN Half
    ELSE IF l.tag = "noregions" THEN Half
    ELSE PyMin(RDiv(l.val, R(500, 1)), One)

\* _analyze_color_distribution: c = "error" when it raises, otherwise the
\* normalised hue entropy
analyze_color_distribution(c) ==
    IF c.tag = "error" THEN Half
    ELSE PyMin(RMul(RAbs(RSub(c.val, R(7, 10))), R(2, 1)), One)

\* the record _consistency_check returns when nothing raised in its body
ConsistencyResult(lighting_score, color_score) ==
    [score |-> RAdd(RMul(lighting_score, Half), RMul(color_score, Half)),
     confidence |-> R(70, 100),
     method |-> "consistency",
     details |-> [lighting_inconsistency |-> lighting_score,
                  color_anomaly |-> color_score],
     available |-> TRUE]

\* _consistency_check: c = "error" when imread raises
consistency_check(c) ==
    IF c.tag = "error" THEN Unavailable("consistency")
    ELSE ConsistencyResult(check_lighting_consistency(c.lighting),
                           analyze_color_distribution(c.color))

\* dict.get(key, default)
Get(r, key, default) == IF key \in DOMAIN r THEN r[key] ELSE default

\* Python float division: ZeroDivisionError for a zero divisor
PyDiv(a, b) ==
    IF b = Zero THEN [raised |-> TRUE, val |-> NaN]
    ELSE [raised |-> FALSE, val |-> RDiv(a, b)]

\* line 448 without the availability test
signal_counts_if_present(results, method_name) == method_name \in DOMAIN results

\* line 448: the signal enters the weighted sum
signal_counts(results, method_name) ==
    /\ method_name \in DOMAIN results
    /\ Get(results[method_name], "available", FALSE)

\* line 453 without the signal's confidence
effective_weight_static(weight, confidence) == weight

\* line 453
effective_weight(weight, confidence) == RMul(weight, confidence)

\* lines 447-456: the loop over weights.items(), from the i-th method on
RECURSIVE ensemble_loop(_, _, _)
ensemble_loop(results, i, acc) ==
    IF i > Len(Methods) THEN acc
    ELSE LET method_name == Methods[i]
         IN  IF signal_counts(results, method_name)
             THEN LET score == results[method_name].score
                      confidence == Get(results[method_name], "confidence", One)
                      ew == effective_weight(weights(method_name), confidence)
                  IN  ensemble_loop(results, i + 1,
                          [total_score |-> RAdd(acc.total_score, RMul(score, ew)),
                           total_weight |-> RAdd(acc.total_weight, ew),
                           available_methods |-> Append(acc.available_methods, method_name)])
             ELSE ensemble_loop(results, i + 1, acc)

\* lines 459-462 without the test of total_weight
final_score_unguarded(total_score, total_weight) == PyDiv(total_score, total_weight)

\* lines 459-462
final_score_of(total_score, total_weight) ==
    IF RGt(total_weight, Zero) THEN PyDiv(total_score, total_weight)
    ELSE [raised |-> FALSE, val |-> Half]

\* line 467
ai_decision(final_score) == RGt(final_score, R(65, 100))

\* lines 472-477
calibrate(is_ai_generated, final_score) ==
    IF is_ai_generated
    THEN PyMin(RDiv(RSub(final_score, R(65, 100)), R(35, 100)), One)
    ELSE PyMin(RDiv(RSub(R(65, 100), final_score), R(65, 100)), One)

\* line 480 with the share of the missing signals
agreement_boost_of_missing(confidence, n_available) ==
    PyMin(RMul(confidence, RAdd(R(7, 10), RMul(R(4 - n_available, 4), R(3, 10)))), One)

\* line 480
agreement_boost(confidence, n_available) ==
    PyMin(RMul(confidence, RAdd(R(7, 10), RMul(R(n_available, 4), R(3, 10)))), One)

\* line 487
reported_threshold == R(5, 10)

\* lines 482-490: the evidence dict and the returned tuple; locals keeps the
\* values of the local variables
ensemble_return(results, acc, fs, is_ai_generated, calibrated) ==
    [raised |-> fs.raised,
     is_ai_generated |-> is_ai_generated,
     confidence |-> agreement_boost(calibrated, Len(acc.available_methods)),
     evidence |-> [methods_used |-> acc.available_methods,
                   method_scores |-> [k \in {m \in DOMAIN results :
                                               Get(results[m], "available", FALSE)}
                                      |-> results[k].score],
                   final_score |-> fs.val,
                   decision_threshold |-> reported_threshold],
     locals |-> [total_score |-> acc.total_score,
                 total_weight |-> acc.total_weight,
                 calibrated |-> calibrated]]

\* lines 467-480, given the sums and the final score
ensemble_verdict(results, acc, fs, is_ai_generated) ==
    ensemble_return(results, acc, fs, is_ai_generated,
                    calibrate(is_ai_generated, fs.val))

\* lines 459-480, given the sums of the loop
ensemble_score(results, acc, fs) ==
    ensemble_verdict(results, acc, fs, ai_decision(fs.val))

\* lines 443-480
ensemble_sums(results, acc) ==
    ensemble_score(results, acc, final_score_of(acc.total_score, acc.total_weight))

\* _ensemble_decision
ensemble_decision(results) ==
    ensemble_sums(results, ensemble_loop(results, 1,
        [total_score |-> Zero, total_weight |-> Zero, available_methods |-> <<>>]))

\* lines 89-94: the four analyzers, awaited one after the other
analyzer_results(loaded, img) ==
    [vit_analysis |-> vit_detection(loaded, img.vit),
     spectral_analysis |-> spectral_analysis(img.spectral),
     artifact_analysis |-> artifact_detection(img.artifact),
     consistency_analysis |-> consistency_check(img.consistency)]

\* lines 97-110: the ensemble decision and the returned dict
detect_return(loaded, results) ==
    [detailed_analysis |-> results,
     model_used |-> IF loaded THEN "ViT-Ensemble" ELSE "Fallback-Ensemble"]
    @@ ensemble_decision(results)

\* detect_ai_generated: Image.open raising is re-raised to the caller
detect_ai_generated(loaded, img) ==
    IF img.open = "error"
    THEN [raised |-> TRUE]
    ELSE detect_return(loaded, analyzer_results(loaded, img))

----------------------------------------------------------------------------
(* ManipulationDetector (backend/app/services/manipulation_detector.py)    *)

\* the largest k in lo..hi with k * k <= n (lo * lo <= n < (hi + 1)^2)
RECURSIVE IRoot(_, _, _)
IRoot(n, lo, hi) ==
    IF lo >= hi THEN lo
    ELSE IF ((lo + hi + 1) \div 2) * ((lo + hi + 1) \div 2) <= n
         THEN IRoot(n, (lo + hi + 1) \div 2, hi)
         ELSE IRoot(n, lo, ((lo + hi + 1) \div 2) - 1)

\* the square root of a >= 0: exact when a is the square of a rational,
\* rounded down to a multiple of 1/a[2] otherwise
RSqrt(a) ==
    IF IsNaN(a) THEN NaN
    ELSE R(IRoot(a[1] * a[2], 0, 30000), a[2])

RECURSIVE SeqSum(_)
SeqSum(xs) == IF xs = <<>> THEN Zero ELSE RAdd(Head(xs), SeqSum(Tail(xs)))

\* np.mean of a non-empty sequence
NpMean(xs) == RDiv(SeqSum(xs), R(Len(xs), 1))

SquaredDeviations(xs, mean) ==
    [i \in 1..Len(xs) |-> RMul(RSub(xs[i], mean), RSub(xs[i], mean))]

\* np.var of a non-empty sequence (the population variance)
NpVar(xs) == NpMean(SquaredDeviations(xs, NpMean(xs)))

\* np.std of a non-empty sequence
NpStd(xs) == RSqrt(NpVar(xs))

\* lines 109-116: the brightness scale 255 / max_diff, max_diff = 0 read as 1
ela_scale(max_diff) == R(255, IF max_diff = 0 THEN 1 ELSE max_diff)

\* lines 119-123: the mean of the enhanced difference image (every pixel is
\* multiplied by the scale; the rounding of single pixels is left out) and
\* the score
ela_score_of(mean_diff, max_diff) ==
    PyMin(RDiv(RMul(mean_diff, ela_scale(max_diff)), R(50, 1)), One)

\* line 129 with np.full((100, 100, 3), 255): one bright region over the map
FullMap ==
    [height |-> 100, width |-> 100,
     components |-> <<[gray |-> 255, area |-> 9801, x |-> 0, y |-> 0,
                       w |-> 100, h |-> 100]>>]

\* line 129: np.zeros((100, 100, 3)), a map without any component
ZeroMap == [height |-> 100, width |-> 100, components |-> <<>>]

\* _error_level_analysis: e.tag = "error" when saving or reloading the JPEG
\* raises; otherwise e.mean_diff and e.max_diff are the mean and the maximum
\* of the difference image and e.map is the enhanced map
error_level_analysis(e) ==
    IF e.tag = "error" THEN [score |-> Zero, map |-> ZeroMap]
    ELSE [score |-> ela_score_of(e.mean_diff, e.max_diff), map |-> e.map]

\* line 161
high_freq_ratio_of(high_freq_energy, total_energy) ==
    IF total_energy > 0 THEN R(high_freq_energy, total_energy) ELSE Zero

\* line 165
freq_score_of(high_freq_ratio) == RMul(RAbs(RSub(high_freq_ratio, Half)), R(2, 1))

\* lines 167-171
frequency_return(high_freq_ratio) ==
    [score |-> PyMin(freq_score_of(high_freq_ratio), One),
     high_freq |-> high_freq_ratio,
     low_freq |-> RSub(One, high_freq_ratio)]

\* np.sum over the magnitudes of a set of bins
RECURSIVE magnitude_sum(_)
magnitude_sum(ms) == IF ms = <<>> THEN 0 ELSE Head(ms) + magnitude_sum(Tail(ms))

\* _frequency_analysis: f.tag = "error" when cvtColor or the FFT raises
\* (cv2.imread returned None); otherwise f.low and f.high are the magnitudes
\* np.abs(f_shift) of the bins inside and outside the central disk of radius
\* 30, and the energies of lines 158-159 are their sums
frequency_analysis(f) ==
    IF f.tag = "error" THEN [score |-> Zero, high_freq |-> Half, low_freq |-> Half]
    ELSE frequency_return(
             high_freq_ratio_of(magnitude_sum(f.high),
                                magnitude_sum(f.low) + magnitude_sum(f.high)))

\* range(0, n - block_size, block_size) as block indices 0, 1, ...
BlockRange(n, block_size) ==
    IF n - block_size <= 0 THEN {}
    ELSE 0..(((n - block_size) + block_size - 1) \div block_size) - 1

\* lines 197-200: the variances of the blocks the two loops visit, row by row
RECURSIVE block_variances(_, _, _, _)
block_variances(n, rows, cols, k) ==
    IF k >= rows * cols THEN <<>>
    ELSE <<R(n.var[<<k \div cols, k % cols>>], 1)>>
         \o block_variances(n, rows, cols, k + 1)

\* lines 203-207
noise_score_of(variances) ==
    IF Len(variances) > 0 THEN PyMin(RDiv(NpStd(variances), R(100, 1)), One)
    ELSE Zero

\* _noise_analysis: n.tag = "error" when cvtColor raises; otherwise the noise
\* map is n.h x n.w and n.var gives the variance of each complete 32x32 block
noise_analysis(n) ==
    IF n.tag = "error" THEN Zero
    ELSE noise_score_of(block_variances(n, Cardinality(BlockRange(n.h, 32)),
                                        Cardinality(BlockRange(n.w, 32)), 0))

\* lines 229-248 for one contour c of the map: c.gray is the grey level of its
\* pixels, c.area its contour area, c.x, c.y, c.w, c.h its bounding rectangle
RECURSIVE areas_of(_)
areas_of(comps) ==
    IF comps = <<>> THEN <<>>
    ELSE IF Head(comps).gray > 30 /\ Head(comps).area > 1000
         THEN <<[region |-> <<Head(comps).x, Head(comps).y,
                              Head(comps).x + Head(comps).w,
                              Head(comps).y + Head(comps).h>>,
                 score |-> R(Head(comps).gray, 255),
                 type |-> "suspicious"]>> \o areas_of(Tail(comps))
         ELSE areas_of(Tail(comps))

\* _detect_manipulation_areas
detect_manipulation_areas(ela_map) == areas_of(ela_map.components)

\* line 50
overall_confidence(ela_score, freq_score, noise_score) ==
    RAdd(RAdd(RMul(ela_score, R(4, 10)), RMul(freq_score, R(3, 10))),
         RMul(noise_score, R(3, 10)))

\* line 53
manipulation_decision(confidence) == RGt(confidence, R(70, 100))

\* lines 56-63 with the two tests in the other order
manipulation_type_freq_first(is_manipulated, ela_score, freq_score) ==
    IF is_manipulated
    THEN IF RGt(freq_score, R(75, 100)) THEN "splice"
         ELSE IF RGt(ela_score, R(85, 100)) THEN "ai_generated"
         ELSE "clone"
    ELSE "None"

\* lines 56-63
manipulation_type_of(is_manipulated, ela_score, freq_score) ==
    IF is_manipulated
    THEN IF RGt(ela_score, R(85, 100)) THEN "ai_generated"
         ELSE IF RGt(freq_score, R(75, 100)) THEN "splice"
         ELSE "clone"
    ELSE "None"

\* line 70
final_confidence_of(is_manipulated, confidence) ==
    IF is_manipulated THEN confidence ELSE RSub(One, confidence)

\* lines 53-83, given the overall confidence of line 50
analyze_return(ela, freq, noise_score, areas, confidence, is_manipulated) ==
    [raised |-> FALSE,
     is_manipulated |-> is_manipulated,
     confidence |-> final_confidence_of(is_manipulated, confidence),
     type |-> manipulation_type_of(is_manipulated, ela.score, freq.score),
     ela_score |-> ela.score,
     frequency_analysis |-> freq,
     noise_score |-> noise_score,
     areas |-> areas,
     locals |-> [confidence |-> confidence]]

analyze_decide(ela, freq, noise_score, areas, confidence) ==
    analyze_return(ela, freq, noise_score, areas, confidence,
                   manipulation_decision(confidence))

\* lines 35-50
analyze_signals(ela, freq, noise_score) ==
    analyze_decide(ela, freq, noise_score, detect_manipulation_areas(ela.map),
                   overall_confidence(ela.score, freq.score, noise_score))

\* ManipulationDetector.analyze: Image.open raising is re-raised
analyze(img) ==
    IF img.open = "error" THEN [raised |-> TRUE]
    ELSE analyze_signals(error_level_analysis(img.ela),
                         frequency_analysis(img.freq),
                         noise_analysis(img.noise))

----------------------------------------------------------------------------
(* Inputs.                                                                 *)

Ok(v) == [tag |-> "ok", val |-> v]
Tag(t) == [tag |-> t, val |-> Zero]

\* what the ViT yields: nothing is asked of it when no model is loaded
VitInputs(loaded) ==
    IF loaded THEN {Tag("error")} \cup {Ok(p) : p \in UnitGrid}
    ELSE {Tag("unused")}
SpectralInputs == {Tag("error")} \cup {Ok(v) : v \in StatGrid(10)}
GridInputs == {Tag("error")} \cup {Ok(v) : v \in StatGrid(100)}
BlurInputs == {Tag("error"), Tag("noblocks"), Ok(StatHigh(10000))}
EdgeInputs == {Tag("error"), Tag("single"), Ok(StatLow(1000))}
ArtifactError ==
    [tag |-> "error", grid |-> Tag("unused"), blur |-> Tag("unused"), edge |-> Tag("unused")]
ArtifactInputs ==
    {ArtifactError}
    \cup [tag : {"ok"}, grid : GridInputs, blur : BlurInputs, edge : EdgeInputs]
LightingInputs == {Tag("error"), Tag("noregions")} \cup {Ok(v) : v \in StatGrid(500)}
ColorInputs == {Tag("error")} \cup {Ok(v) : v \in {Zero, One}}
ConsistencyError == [tag |-> "error", lighting |-> Tag("unused"), color |-> Tag("unused")]
ConsistencyInputs ==
    {ConsistencyError}
    \cup [tag : {"ok"}, lighting : LightingInputs, color : ColorInputs]

\* a 1x1 image: the radial profile has one bin, the centre region of the
\* autocorrelation is empty (min() of it raises), there is no 64x64 block and
\* no edge, h // 3 = 0 (range() raises), and the hue histogram has one bin
PixelImage(v) ==
    [open |-> "ok", vit |-> v, spectral |-> Tag("empty"),
     artifact |-> [tag |-> "ok", grid |-> Tag("error"), blur |-> Tag("noblocks"),
                   edge |-> Tag("single")],
     consistency |-> [tag |-> "ok", lighting |-> Tag("error"), color |-> Ok(Zero)]]

\* the images handed to detect_ai_generated
DetectInputs(loaded) ==
    {[open |-> "error", vit |-> Tag("unused"), spectral |-> Tag("unused"),
      artifact |-> ArtifactError, consistency |-> ConsistencyError]}
    \cup {PixelImage(v) : v \in VitInputs(loaded)}
    \cup [open : {"ok"}, vit : VitInputs(loaded), spectral : SpectralInputs,
          artifact : ArtifactInputs, consistency : ConsistencyInputs]

\* what each analyzer can return: the result sets handed to _ensemble_decision
\* directly are drawn from these, any key possibly missing
SignalChoices(method_name) ==
    CASE method_name = "vit_analysis" ->
            {vit_detection(TRUE, v) : v \in VitInputs(TRUE)}
      [] method_name = "spectral_analysis" ->
            {spectral_analysis(x) : x \in SpectralInputs}
      [] method_name = "artifact_analysis" ->
            {Unavailable("artifacts")}
            \cup {ArtifactResult(g, g, g) : g \in UnitGrid}
      [] method_name = "consistency_analysis" ->
            {Unavailable("consistency")}
            \cup {ConsistencyResult(l, l) : l \in UnitGrid}

\* a key that is missing from the results dict
Absent == [method |-> "absent"]

MethodSet == {Methods[i] : i \in 1..Len(Methods)}

\* the dict with the keys of c that are not Absent
Present(c) == [m \in {k \in MethodSet : c[k] # Absent} |-> c[m]]

EnsembleInputs ==
    {Present(c) : c \in [vit_analysis : SignalChoices("vit_analysis") \cup {Absent},
                         spectral_analysis : SignalChoices("spectral_analysis") \cup {Absent},
                         artifact_analysis : SignalChoices("artifact_analysis") \cup {Absent},
                         consistency_analysis :
                             SignalChoices("consistency_analysis") \cup {Absent}]}

\* the difference images: <<mean_diff, max_diff>>
ElaSamples ==
    {<<Zero, 0>>, <<R(10, 1), 255>>, <<R(85, 2), 255>>, <<R(45, 1), 255>>,
     <<R(100, 1), 255>>, <<One, 10>>}

\* the connected regions of equal grey level in a difference map: gray is the
\* level of the region's pixels, area its contour area, x, y, w, h its
\* bounding rectangle inside the map
SampleComponent == [gray |-> 200, area |-> 2000, x |-> 10, y |-> 10, w |-> 50, h |-> 40]
BorderComponent == [gray |-> 200, area |-> 2000, x |-> 78, y |-> 88, w |-> 50, h |-> 40]
OverlappingComponent == [gray |-> 90, area |-> 1500, x |-> 30, y |-> 20, w |-> 60, h |-> 60]
FaintComponent == [gray |-> 30, area |-> 2000, x |-> 10, y |-> 10, w |-> 50, h |-> 40]
ThousandComponent == [gray |-> 200, area |-> 1000, x |-> 0, y |-> 0, w |-> 41, h |-> 26]
SmallComponent == [gray |-> 200, area |-> 500, x |-> 60, y |-> 60, w |-> 30, h |-> 20]

ComponentLists ==
    {<<>>, <<SampleComponent>>, <<BorderComponent>>,
     <<SampleComponent, OverlappingComponent>>, <<FaintComponent>>,
     <<ThousandComponent, SmallComponent>>}

\* np.array(ela_img) has the shape of the image
ElaMaps ==
    {[height |-> 128, width |-> 128, components |-> cs] : cs \in ComponentLists}

\* image.save raises: the image is 64x64, smaller than the substitute map
ElaError ==
    [tag |-> "error", height |-> 64, width |-> 64, mean_diff |-> Zero, max_diff |-> 0,
     map |-> ZeroMap]

\* every difference image with a map without regions, and one of them with
\* every map
ElaPairs ==
    (ElaSamples \X {[height |-> 128, width |-> 128, components |-> <<>>]})
    \cup ({<<R(45, 1), 255>>} \X ElaMaps)

ElaInputs ==
    {ElaError}
    \cup {[tag |-> "ok", height |-> p[2].height, width |-> p[2].width,
           mean_diff |-> p[1][1], max_diff |-> p[1][2], map |-> p[2]] :
              p \in ElaPairs}

FreqError == [tag |-> "error", low |-> <<>>, high |-> <<>>]

\* spectra: no energy at all, all energy in the centre, most of it, half of
\* it, none of it
FreqInputs ==
    {[tag |-> "ok", low |-> sp[1], high |-> sp[2]] :
        sp \in {<<<<0, 0>>, <<0, 0>>>>, <<<<3, 0>>, <<0, 0>>>>, <<<<3, 0>>, <<1, 0>>>>,
                <<<<1, 0>>, <<0, 1>>>>, <<<<0, 0>>, <<3, 0>>>>}}

\* the sizes of the noise map and the variances a block can have
NoiseDims == {<<16, 16>>, <<64, 64>>, <<33, 65>>}
NoiseValues == {0, 100, 300}

BlockGrid(h, w) == (0..((h \div 32) - 1)) \X (0..((w \div 32) - 1))

NoiseError == [tag |-> "error", h |-> 0, w |-> 0, var |-> <<>>]

NoiseInputs ==
    UNION {{[tag |-> "ok", h |-> d[1], w |-> d[2], var |-> v] :
               v \in [BlockGrid(d[1], d[2]) -> NoiseValues]} : d \in NoiseDims}

\* cv2.imread returns the image for both analyzers, or None for both
CvInputs ==
    {[freq |-> FreqError, noise |-> NoiseError]}
    \cup [freq : FreqInputs, noise : NoiseInputs]

\* the difference image of a uniform 128x128 image: no difference at all, or
\* one channel off by one in every pixel, which the enhancement of line 116
\* turns into one bright region over the whole map
UniformEla ==
    {[tag |-> "ok", height |-> 128, width |-> 128, mean_diff |-> Zero, max_diff |-> 0,
      map |-> [height |-> 128, width |-> 128, components |-> <<>>]],
     [tag |-> "ok", height |-> 128, width |-> 128, mean_diff |-> R(1, 3), max_diff |-> 1,
      map |-> [height |-> 128, width |-> 128,
               components |-> <<[gray |-> 76, area |-> 16129, x |-> 0, y |-> 0,
                                 w |-> 128, h |-> 128]>>]]}

\* a uniform solid-colour 128x128 image: the spectrum has its energy in the
\* zero-frequency bin (none at all for black), the noise map is zero
UniformImages ==
    {[open |-> "ok", ela |-> e,
      freq |-> [tag |-> "ok", low |-> <<dc, 0>>, high |-> <<0, 0>>],
      noise |-> [tag |-> "ok", h |-> 128, w |-> 128,
                 var |-> [b \in BlockGrid(128, 128) |-> 0]]] :
        e \in UniformEla, dc \in {0, 3}}

\* the images handed to analyze
AnalyzeInputs ==
    UniformImages \cup
    {[open |-> "error", ela |-> ElaError, freq |-> FreqError, noise |-> NoiseError]}
    \cup {[open |-> "ok", ela |-> e, freq |-> c.freq, noise |-> c.noise] :
              e \in ElaInputs, c \in CvInputs}

----------------------------------------------------------------------------
(* SimpleAnalyzer (backend/app/models/simple_analyzer.py) and               *)
(* DeepfakeClassifier (backend/app/models/dinov3_model.py)                  *)

\* round(a, ndigits) for a >= 0 and k = 10^ndigits: to the nearest multiple of
\* 1/k, a tie to the even one
RoundTo(a, k) ==
    LET n == a[1] * k
        q == n \div a[2]
        r == n % a[2]
    IN  IF 2 * r > a[2] \/ (2 * r = a[2] /\ q % 2 = 1) THEN R(q + 1, k) ELSE R(q, k)

\* lines 129-136 (simple_analyzer.py), lines 241-248 (dinov3_model.py)
classification_of(authenticity_score) ==
    IF ~RLt(authenticity_score, R(95, 1)) THEN "GENUINE MEDIA"
    ELSE IF ~RLt(authenticity_score, R(85, 1)) THEN "LIKELY AUTHENTIC"
    ELSE IF ~RLt(authenticity_score, R(60, 1)) THEN "SUSPICIOUS"
    ELSE "FAKE"

\* lines 142-147
model_anomalies(authenticity_score, fake_prob, confidence) ==
    IF RLt(authenticity_score, R(90, 1))
    THEN (IF RGt(fake_prob, R(3, 10)) THEN <<"potential_ai_generation_indicators">> ELSE <<>>)
         \o (IF RLt(confidence, R(7, 10)) THEN <<"low_confidence_features">> ELSE <<>>)
    ELSE <<>>

\* _fallback_analysis: base_score is what random.uniform(85, 99) returned
fallback_analysis(base_score) ==
    LET authenticity_score == RoundTo(base_score, 10)
    IN  [authenticity_score |-> authenticity_score,
         classification |->
             IF ~RLt(authenticity_score, R(95, 1)) THEN "GENUINE MEDIA"
             ELSE IF ~RLt(authenticity_score, R(85, 1)) THEN "LIKELY AUTHENTIC"
             ELSE "SUSPICIOUS",
         confidence |-> PyMin(R(99, 100), RDiv(authenticity_score, R(100, 1))),
         feature_anomalies |->
             IF RLt(authenticity_score, R(90, 1))
             THEN <<"minor_compression_artifacts", "slight_color_inconsistency">>
             ELSE <<>>]

\* _analyze_with_model: image.fails when the processor or the model raises on
\* the image, image.real_prob is the softmax probability of class 0
analyze_with_model(image, base_score) ==
    IF image.fails THEN fallback_analysis(base_score)
    ELSE LET real_prob == image.real_prob
             fake_prob == RSub(One, image.real_prob)
             authenticity_score == RoundTo(RMul(real_prob, R(100, 1)), 10)
             confidence == RAbs(RSub(real_prob, fake_prob))
         IN  [authenticity_score |-> authenticity_score,
              classification |-> classification_of(authenticity_score),
              confidence |-> confidence,
              feature_anomalies |->
                  model_anomalies(authenticity_score, fake_prob, confidence)]

\* lines 73-84: the returned dict (image_info left out)
analyze_image_return(r) ==
    [authenticity_score |-> r.authenticity_score,
     classification |-> r.classification,
     confidence |-> RoundTo(r.confidence, 100),
     feature_anomalies |-> r.feature_anomalies]

\* SimpleAnalyzer.analyze_image: image.broken when image.size or
\* image.tobytes() raises; base_score is the draw of random.uniform, read
\* only on the fallback path
analyze_image(model, image, base_score) ==
    IF image.broken
    THEN [authenticity_score |-> Zero, classification |-> "ERROR", confidence |-> Zero,
          feature_anomalies |-> <<"analysis_failed">>]
    ELSE IF model = "loaded"
         THEN analyze_image_return(analyze_with_model(image, base_score))
         ELSE analyze_image_return(fallback_analysis(base_score))

\* analyze_image reads the random generator
simple_draws(model, image) == ~image.broken /\ (model # "loaded" \/ image.fails)

\* _fallback_prediction: u1 and u2 are the fractions of their ranges that the
\* two np.random.uniform calls returned
fallback_prediction(features, u1, u2) ==
    LET confidence == RAdd(R(8, 10), RMul(u2, R(2, 10)))
    IN  IF RGt(features.norm, R(8, 10)) /\ RLt(RAbs(features.mean), R(1, 10))
        THEN [authenticity_score |-> RAdd(R(95, 1), RMul(u1, R(5, 1))),
              classification |-> "GENUINE MEDIA", confidence |-> confidence]
        ELSE IF RGt(features.norm, R(6, 10))
        THEN [authenticity_score |-> RAdd(R(85, 1), RMul(u1, R(10, 1))),
              classification |-> "LIKELY AUTHENTIC", confidence |-> confidence]
        ELSE [authenticity_score |-> RAdd(R(60, 1), RMul(u1, R(25, 1))),
              classification |-> "SUSPICIOUS", confidence |-> confidence]

\* lines 234-253, given the softmax probability of class 0
predict_return(real_prob) ==
    [authenticity_score |-> RoundTo(RMul(real_prob, R(100, 1)), 10),
     classification |-> classification_of(RoundTo(RMul(real_prob, R(100, 1)), 10)),
     confidence |-> RAbs(RSub(real_prob, RSub(One, real_prob)))]

\* DeepfakeClassifier.predict: features.fails when the forward pass raises
\* (wrong dimension); real_prob is the softmax output of the forward pass
predict(model, features, real_prob, u1, u2) ==
    IF model = "none" THEN fallback_prediction(features, u1, u2)
    ELSE IF features.fails THEN fallback_prediction(features, u1, u2)
    ELSE predict_return(real_prob)

\* predict reads the random generator
predict_draws(model, features) == model = "none" \/ features.fails

\* the forward pass of load_pretrained's two models: the loaded checkpoint is
\* in eval mode (line 195) and gives the features' probability; the randomly
\* initialised one (lines 201, 207) is left in training mode, its Dropout
\* layers are active and the output varies from call to call
ForwardOutputs(model, features) ==
    IF model = "untrained" THEN UnitGrid ELSE {features.real_prob}

\* random.uniform(85, 99)
BaseScores == {R(85, 1), R(8994, 100), R(95, 1), R(99, 1)}

\* np.random.uniform(0, b) / b
UniformDraws == {Zero, Half}

ImageSamples ==
    {[id |-> "a", real_prob |-> R(24, 25), fails |-> FALSE, broken |-> FALSE],
     [id |-> "b", real_prob |-> Half, fails |-> FALSE, broken |-> FALSE],
     [id |-> "c", real_prob |-> Zero, fails |-> TRUE, broken |-> FALSE],
     [id |-> "d", real_prob |-> Zero, fails |-> FALSE, broken |-> TRUE]}

FeatureSamples ==
    {[id |-> "f", norm |-> One, mean |-> Zero, real_prob |-> R(24, 25), fails |-> FALSE],
     [id |-> "g", norm |-> R(7, 10), mean |-> Half, real_prob |-> Half, fails |-> FALSE],
     [id |-> "h", norm |-> Half, mean |-> Zero, real_prob |-> Zero, fails |-> TRUE]}

----------------------------------------------------------------------------
(* modal_ml_pipeline.py: analyze_image and its verification memory.        *)
(* A Python dict is a function on its keys, {**a, **b} is b @@ a; text is  *)
(* a sequence of characters; None is the string "None".                    *)

\* the containers that run analyze_image against the one shared modal.Dict
Procs == {1, 2}

\* how many calls of analyze_image a behaviour makes
MaxCalls == 3

None == "None"

Str(chars) == [tag |-> "str", val |-> chars]

\* lines 535-553: keyword in str(value).lower(), for the letters and the
\* keywords the sample texts can spell
contains_ai_keyword(text) ==
    LET lower == [i \in DOMAIN text |->
                     CASE text[i] = "G" -> "g"
                       [] text[i] = "A" -> "a"
                       [] text[i] = "N" -> "n"
                       [] text[i] = "D" -> "d"
                       [] OTHER -> text[i]]
    IN  \E keyword \in {<<"g", "a", "n">>, <<"d", "a", "l", "l", "e">>} :
            \E i \in 1..(Len(text) - Len(keyword) + 1) :
                SubSeq(lower, i, i + Len(keyword) - 1) = keyword

\* lines 555-575: piexif.load fails, or the first tag value that holds a
\* keyword is recorded (one IFD)
exif_sources(image) ==
    IF image.exif.tag = "error" THEN {}
    ELSE {[source |-> "exif", value |-> image.exif.val[j]] :
             j \in {i \in DOMAIN image.exif.val :
                      /\ contains_ai_keyword(image.exif.val[i])
                      /\ \A h \in 1..(i - 1) :
                            ~contains_ai_keyword(image.exif.val[h])}}

\* lines 577-589: only non-empty str or bytes values are looked at
metadata_sources(metadata) ==
    {[source |-> k, value |-> metadata[k].val] :
        k \in {x \in DOMAIN metadata :
                 /\ metadata[x].tag \in {"str", "bytes"}
                 /\ metadata[x].val # <<>>
                 /\ contains_ai_keyword(metadata[x].val)}}

\* SPAIEngine.predict, lines 328-343: the payload of a clamped score
engine_result(score) ==
    [is_ai_generated |-> RLe(Half, PyMax(Zero, PyMin(One, score))),
     score |-> PyMax(Zero, PyMin(One, score)),
     label |-> IF RLe(Half, PyMax(Zero, PyMin(One, score)))
               THEN "ai_generated" ELSE "authentic",
     probabilities |-> [ai_generated |-> PyMax(Zero, PyMin(One, score)),
                        authentic |-> RSub(One, PyMax(Zero, PyMin(One, score)))],
     status |-> "ok"]

\* the defaults updated by whatever payload arrives, without lines 604-607
spai_detection_unvalidated(outcome) ==
    IF outcome.tag = "payload"
    THEN [status |-> "ok"] @@ outcome.val @@
         [is_ai_generated |-> FALSE, score |-> Zero, label |-> "unknown",
          probabilities |-> <<>>]
    ELSE [is_ai_generated |-> FALSE, score |-> Zero, label |-> "unknown",
          probabilities |-> <<>>, status |-> "unavailable",
          error |-> outcome.tag]

\* lines 591-616: the defaults, updated by a valid payload
spai_detection(outcome) ==
    IF outcome.tag = "payload" /\ "score" \in DOMAIN outcome.val
    THEN [status |-> "ok"] @@ outcome.val @@
         [is_ai_generated |-> FALSE, score |-> Zero, label |-> "unknown",
          probabilities |-> <<>>]
    ELSE [is_ai_generated |-> FALSE, score |-> Zero, label |-> "unknown",
          probabilities |-> <<>>, status |-> "unavailable",
          error |-> outcome.tag]

\* the confidence without the metadata boost of lines 654-656
confidence_unboosted(is_ai_generated, has_ai_metadata, spai_result) ==
    IF ~(/\ spai_result.status = "ok"
         /\ "ai_generated" \in DOMAIN spai_result.probabilities) THEN Half
    ELSE IF is_ai_generated
         THEN PyMax(Zero, PyMin(One, spai_result.probabilities.ai_generated))
    ELSE PyMax(Zero, PyMin(One, spai_result.probabilities.authentic))

\* lines 620-656: the confidence; value None (no probability) gives 0.5,
\* and _normalize_probability and line 652 clamp to [0, 1]
confidence_of(is_ai_generated, has_ai_metadata, spai_result) ==
    LET has_probability ==
            /\ spai_result.status = "ok"
            /\ "ai_generated" \in DOMAIN spai_result.probabilities
        ai_probability ==
            PyMax(Zero, PyMin(One, spai_result.probabilities.ai_generated))
        authentic_probability ==
            IF "authentic" \in DOMAIN spai_result.probabilities
            THEN PyMax(Zero, PyMin(One, spai_result.probabilities.authentic))
            ELSE RSub(One, ai_probability)
        base_confidence ==
            IF ~has_probability THEN Half
            ELSE IF is_ai_generated THEN ai_probability
            ELSE authentic_probability
        confidence == PyMax(Zero, PyMin(One, base_confidence))
    IN  IF has_ai_metadata /\ RLt(confidence, R(95, 100)) THEN R(95, 100)
        ELSE confidence

\* lines 639-673: the result of a computed call
pipeline_result(sources, spai_result, processing_time) ==
    [is_manipulated |-> spai_result.is_ai_generated \/ sources # {},
     is_ai_generated |-> spai_result.is_ai_generated \/ sources # {},
     confidence |->
         confidence_of(spai_result.is_ai_generated \/ sources # {}, sources # {},
                       spai_result),
     manipulation_type |->
         IF spai_result.is_ai_generated \/ sources # {} THEN "ai" ELSE None,
     manipulation_areas |-> <<>>,
     processing_time |-> processing_time,
     method |-> IF sources # {} THEN "pure_ml+metadata" ELSE "pure_ml",
     models_used |-> <<"spai">>,
     ai_detection |-> spai_result,
     metadata_check |-> [has_ai_indicators |-> sources # {}, sources |-> sources]]

\* lines 502-510: what a cache hit returns
cached_result_of(cached_record) ==
    [cache_hit |-> TRUE, processing_time |-> 0] @@ cached_record.result

\* lines 511-519: the record a cache hit writes back
updated_record_of(cached_record, metadata, request_timestamp) ==
    [metadata |-> metadata @@ cached_record.metadata,
     last_seen |-> request_timestamp] @@ cached_record

\* lines 677-703: the record a computed call writes
record_of(sha256, existing_record, metadata, result, timestamp) ==
    [sha256 |-> sha256,
     created_at |-> IF existing_record = <<>> THEN timestamp
                    ELSE existing_record[1].created_at,
     last_seen |-> timestamp,
     metadata |-> IF existing_record = <<>> THEN metadata
                  ELSE metadata @@ existing_record[1].metadata,
     summary |-> [verdict |-> IF result.is_ai_generated \/ result.is_manipulated
                              THEN "ai_generated" ELSE "authentic",
                  confidence |-> result.confidence,
                  method |-> result.method,
                  processing_time |-> result.processing_time],
     result |-> result]

\* image bytes: a PNG without EXIF, a JPEG whose EXIF names a generator, and
\* bytes that PIL cannot open; sha256 is collision-free on them
ImageBytes ==
    {[sha256 |-> "a", opens |-> TRUE, exif |-> [tag |-> "error"]],
     [sha256 |-> "g", opens |-> TRUE,
      exif |-> [tag |-> "ok", val |-> <<<<"c", "a", "m">>, <<"D", "a", "l", "l", "e">>>>]],
     [sha256 |-> "x", opens |-> FALSE, exif |-> [tag |-> "error"]]}

MetadataSamples ==
    {<<>>,
     [filename |-> Str(<<"c", "a", "t">>)],
     [source_url |-> Str(<<"o", "r", "G", "A", "N">>), note |-> [tag |-> "none"]]}

\* detect_with_spai: it raises, or answers without a score, or with a score
SpaiOutcomes ==
    {[tag |-> "raise"],
     [tag |-> "payload",
      val |-> [is_ai_generated |-> TRUE, label |-> "ai_generated",
               probabilities |-> [ai_generated |-> One]]],
     [tag |-> "payload", val |-> engine_result(R(1, 5))],
     [tag |-> "payload", val |-> engine_result(R(24, 25))]}

\* the arguments of a call: bytes that do not open are sent without metadata
CallInputs ==
    {[image |-> i, metadata |-> md] :
        i \in {b \in ImageBytes : b.opens}, md \in MetadataSamples}
    \cup {[image |-> i, metadata |-> <<>>] : i \in {b \in ImageBytes : ~b.opens}}

\* the calls two containers interleave: one image, sent with each metadata
ConcurrentInputs == {args \in CallInputs : args.image.sha256 = "a"}

\* SPAI is down, or it answers
ConcurrentOutcomes == {o \in SpaiOutcomes : o.tag = "raise" \/ "score" \in DOMAIN o.val}

\* a container with no call yet
IdleCall == [pc |-> "idle"]

\* the sha256 keys of the bytes that open
Keys == {image.sha256 : image \in {i \in ImageBytes : i.opens}}

----------------------------------------------------------------------------
Init ==
    /\ model_loaded = FALSE
    /\ ai_threshold = Half
    /\ ela_quality = 90
    /\ threshold = 15
    /\ simple_model = "unset"
    /\ classifier_model = "unset"
    /\ runs = <<>>
    /\ op = "none"
    /\ inp = <<>>
    /\ out = <<>>
    /\ verified_results = <<>>
    /\ clock = 1
    /\ calls = [p \in Procs |-> IdleCall]
    /\ history = [calls |-> 0, computed |-> [k \in Keys |-> <<>>],
                  served |-> [k \in Keys |-> 0]]
    /\ backend = [pc |-> "down"]
    /\ workflow = [pc |-> "new"]

\* load_model: the ViT weights load, or loading fails
LoadModel ==
    /\ op = "none"
    /\ \E ok \in BOOLEAN : model_loaded' = ok
    /\ UNCHANGED service_vars
    /\ UNCHANGED <<ai_threshold, ela_quality, threshold, simple_model,
                   classifier_model, runs, op, inp, out>>

\* lines 89-94: the analyzer that detect_ai_generated awaits as its k-th
analyzer_result(loaded, img, k) ==
    CASE k = 1 -> vit_detection(loaded, img.vit)
      [] k = 2 -> spectral_analysis(img.spectral)
      [] k = 3 -> artifact_detection(img.artifact)
      [] k = 4 -> consistency_check(img.consistency)

\* line 97 is reached with a results dict that has only some of its entries
some_returned(results) == DOMAIN results # {}

\* line 97 is reached after the dict of lines 89-94 is complete
all_returned(results) == DOMAIN results = MethodSet

\* detect_ai_generated up to line 86: Image.open raises and the call ends, or
\* the results dict is begun
DetectStart ==
    /\ op = "none"
    /\ \E img \in DetectInputs(model_loaded) :
          /\ inp' = img
          /\ IF img.open = "error"
             THEN op' = "detect" /\ out' = detect_ai_generated(model_loaded, img)
             ELSE op' = "detecting" /\ out' = [results |-> <<>>]
    /\ UNCHANGED service_vars
    /\ UNCHANGED <<model_loaded, ai_threshold, ela_quality, threshold, simple_model,
                   classifier_model, runs>>

\* lines 90-93: the next analyzer is awaited and returns its dict
DetectAwait ==
    /\ op = "detecting"
    /\ Cardinality(DOMAIN out.results) < Len(Methods)
    /\ out' = [results |->
                  out.results @@
                  (Methods[Cardinality(DOMAIN out.results) + 1] :>
                      analyzer_result(model_loaded, inp,
                                      Cardinality(DOMAIN out.results) + 1))]
    /\ UNCHANGED service_vars
    /\ UNCHANGED <<model_loaded, ai_threshold, ela_quality, threshold, simple_model,
                   classifier_model, runs, op, inp>>

\* lines 97-110: the ensemble decision over the results, and the return
DetectFuse ==
    /\ op = "detecting"
    /\ all_returned(out.results)
    /\ out' = detect_return(model_loaded, out.results)
    /\ op' = "detect"
    /\ UNCHANGED service_vars
    /\ UNCHANGED <<model_loaded, ai_threshold, ela_quality, threshold, simple_model,
                   classifier_model, runs, inp>>

\* AIImageDetector.detect_ai_generated(image_path)
DetectAIGenerated == DetectStart \/ DetectAwait \/ DetectFuse

\* AIImageDetector._ensemble_decision(results), called on its own
EnsembleDecision ==
    /\ op = "none"
    /\ \E results \in EnsembleInputs :
          /\ inp' = results
          /\ out' = ensemble_decision(results)
    /\ op' = "ensemble"
    /\ UNCHANGED service_vars
    /\ UNCHANGED <<model_loaded, ai_threshold, ela_quality, threshold, simple_model,
                   classifier_model, runs>>

\* lines 35-44: what analyze awaits, in this order
AnalyzeSteps == <<"ela", "freq", "noise", "areas">>

\* lines 35-44: the result of the k-th await, given the earlier ones
analyze_step(img, results, k) ==
    CASE k = 1 -> error_level_analysis(img.ela)
      [] k = 2 -> frequency_analysis(img.freq)
      [] k = 3 -> noise_analysis(img.noise)
      [] k = 4 -> detect_manipulation_areas(results.ela.map)

\* line 50 is reached after the four awaits of lines 35-44
analyze_all_returned(results) ==
    DOMAIN results = {AnalyzeSteps[k] : k \in 1..Len(AnalyzeSteps)}

\* analyze up to line 32: Image.open raises and the call ends, or the
\* analyzers are begun
AnalyzeStart ==
    /\ op = "none"
    /\ \E img \in AnalyzeInputs :
          /\ inp' = img
          /\ IF img.open = "error"
             THEN op' = "analyze" /\ out' = analyze(img)
             ELSE op' = "analyzing" /\ out' = [results |-> <<>>]
    /\ UNCHANGED service_vars
    /\ UNCHANGED <<model_loaded, ai_threshold, ela_quality, threshold, simple_model,
                   classifier_model, runs>>

\* lines 35-44: the next analyzer is awaited and returns
AnalyzeAwait ==
    /\ op = "analyzing"
    /\ Cardinality(DOMAIN out.results) < Len(AnalyzeSteps)
    /\ out' = [results |->
                  out.results @@
                  (AnalyzeSteps[Cardinality(DOMAIN out.results) + 1] :>
                      analyze_step(inp, out.results,
                                   Cardinality(DOMAIN out.results) + 1))]
    /\ UNCHANGED service_vars
    /\ UNCHANGED <<model_loaded, ai_threshold, ela_quality, threshold, simple_model,
                   classifier_model, runs, op, inp>>

\* lines 50-83: the raw score, the decision and the return
AnalyzeFuse ==
    /\ op = "analyzing"
    /\ analyze_all_returned(out.results)
    /\ out' = analyze_decide(out.results.ela, out.results.freq, out.results.noise,
                             out.results.areas,
                             overall_confidence(out.results.ela.score,
                                                out.results.freq.score,
                                                out.results.noise))
    /\ op' = "analyze"
    /\ UNCHANGED service_vars
    /\ UNCHANGED <<model_loaded, ai_threshold, ela_quality, threshold, simple_model,
                   classifier_model, runs, inp>>

\* ManipulationDetector.analyze(image_path)
Analyze == AnalyzeStart \/ AnalyzeAwait \/ AnalyzeFuse

\* SimpleAnalyzer.__init__: the Hugging Face model loads, or loading fails
SimpleAnalyzerInit ==
    /\ op = "none"
    /\ simple_model = "unset"
    /\ \E m \in {"loaded", "none"} : simple_model' = m
    /\ op' = "simple"
    /\ UNCHANGED service_vars
    /\ UNCHANGED <<model_loaded, ai_threshold, ela_quality, threshold,
                   classifier_model, runs, inp, out>>

\* SimpleAnalyzer.analyze_image(image)
AnalyzeImage ==
    /\ op = "simple"
    /\ Len(runs) < MaxRuns
    /\ \E image \in ImageSamples :
          \E base_score \in IF simple_draws(simple_model, image)
                            THEN BaseScores ELSE {Zero} :
              /\ inp' = image
              /\ out' = analyze_image(simple_model, image, base_score)
              /\ runs' = Append(runs, [input |-> image,
                                       result |-> analyze_image(simple_model, image,
                                                                base_score)])
    /\ UNCHANGED service_vars
    /\ UNCHANGED <<model_loaded, ai_threshold, ela_quality, threshold, simple_model,
                   classifier_model, op>>

\* DeepfakeClassifier.__init__
DeepfakeClassifierInit ==
    /\ op = "none"
    /\ classifier_model = "unset"
    /\ classifier_model' = "none"
    /\ op' = "classifier"
    /\ UNCHANGED service_vars
    /\ UNCHANGED <<model_loaded, ai_threshold, ela_quality, threshold, simple_model,
                   runs, inp, out>>

\* DeepfakeClassifier.load_pretrained, as DINOv3Analyzer.initialize calls it
\* before any prediction: a checkpoint is loaded, or a randomly initialised
\* model is created
LoadPretrained ==
    /\ op = "classifier"
    /\ classifier_model = "none"
    /\ runs = <<>>
    /\ \E m \in {"trained", "untrained"} : classifier_model' = m
    /\ UNCHANGED service_vars
    /\ UNCHANGED <<model_loaded, ai_threshold, ela_quality, threshold, simple_model,
                   runs, op, inp, out>>

\* DeepfakeClassifier.predict(features)
Predict ==
    /\ op = "classifier"
    /\ Len(runs) < MaxRuns
    /\ \E features \in FeatureSamples :
          \E real_prob \in ForwardOutputs(classifier_model, features) :
              \E u \in IF predict_draws(classifier_model, features)
                       THEN UniformDraws \X UniformDraws ELSE {<<Zero, Zero>>} :
                  /\ inp' = features
                  /\ out' = predict(classifier_model, features, real_prob, u[1], u[2])
                  /\ runs' = Append(runs,
                         [input |-> features,
                          result |-> predict(classifier_model, features, real_prob,
                                             u[1], u[2])])
    /\ UNCHANGED service_vars
    /\ UNCHANGED <<model_loaded, ai_threshold, ela_quality, threshold, simple_model,
                   classifier_model, op>>

Next ==
    \/ LoadModel
    \/ Analyze
    \/ DetectAIGenerated
    \/ EnsembleDecision
    \/ SimpleAnalyzerInit
    \/ AnalyzeImage
    \/ DeepfakeClassifierInit
    \/ LoadPretrained
    \/ Predict

Spec == Init /\ [][Next]_vars

----------------------------------------------------------------------------
(* analyze_image, one step per access to the shared dict or the clock.     *)

\* lines 494-498: the call begins, drops the None values of its metadata and
\* reads the clock
StartCall(p, inputs) ==
    /\ calls[p].pc \in {"idle", "done"}
    /\ history.calls < MaxCalls
    /\ \E args \in inputs :
          calls' = [calls EXCEPT ![p] =
                       [pc |-> "lookup", image |-> args.image,
                        metadata |-> [k \in {x \in DOMAIN args.metadata :
                                              args.metadata[x].tag # "none"}
                                        |-> args.metadata[k]],
                        start_time |-> clock, request_timestamp |-> clock]]
    /\ clock' = clock + 1
    /\ history' = [history EXCEPT !.calls = @ + 1]
    /\ UNCHANGED <<verified_results, ensemble_vars, backend, workflow>>

\* lines 500-501: verified_results.get(sha256)
Lookup(p) ==
    /\ calls[p].pc = "lookup"
    /\ calls' = [calls EXCEPT ![p] =
                    IF calls[p].image.sha256 \in DOMAIN verified_results
                    THEN [pc |-> "hit",
                          cached_record |-> verified_results[calls[p].image.sha256]]
                         @@ calls[p]
                    ELSE [pc |-> "compute"] @@ calls[p]]
    /\ UNCHANGED <<verified_results, clock, history, ensemble_vars, backend, workflow>>

\* lines 502-522: the record is written back and the stored verdict returned
CacheHit(p) ==
    /\ calls[p].pc = "hit"
    /\ verified_results' =
          (calls[p].image.sha256 :>
               updated_record_of(calls[p].cached_record, calls[p].metadata,
                                 calls[p].request_timestamp))
          @@ verified_results
    /\ calls' = [calls EXCEPT ![p] =
                    [pc |-> "done", path |-> "hit", image |-> calls[p].image,
                     metadata |-> calls[p].metadata,
                     request_timestamp |-> calls[p].request_timestamp,
                     returned |-> cached_result_of(calls[p].cached_record)]]
    /\ history' = [history EXCEPT !.served[calls[p].image.sha256] =
                                     IF calls[p].request_timestamp > @
                                     THEN calls[p].request_timestamp ELSE @]
    /\ UNCHANGED <<clock, ensemble_vars, backend, workflow>>

\* lines 524-675: Image.open raises ValueError, or the metadata check, SPAI
\* and the decision run and the clock is read again
Compute(p, outcomes) ==
    /\ calls[p].pc = "compute"
    /\ IF ~calls[p].image.opens
       THEN /\ calls' = [calls EXCEPT ![p] =
                            [pc |-> "done", path |-> "raised", image |-> calls[p].image,
                             metadata |-> calls[p].metadata,
                             request_timestamp |-> calls[p].request_timestamp,
                             returned |-> [raised |-> "ValueError"]]]
            /\ UNCHANGED <<clock, history>>
       ELSE /\ \E outcome \in outcomes :
                  /\ calls' = [calls EXCEPT ![p] =
                        [pc |-> "existing", outcome |-> outcome,
                         result |->
                             pipeline_result(
                                 exif_sources(calls[p].image)
                                     \cup metadata_sources(calls[p].metadata),
                                 spai_detection(outcome),
                                 clock - calls[p].start_time),
                         timestamp |-> clock] @@ calls[p]]
                  /\ history' = [history EXCEPT !.computed[calls[p].image.sha256] =
                        Append(@, pipeline_result(
                                 exif_sources(calls[p].image)
                                     \cup metadata_sources(calls[p].metadata),
                                 spai_detection(outcome),
                                 clock - calls[p].start_time))]
            /\ clock' = clock + 1
    /\ UNCHANGED <<verified_results, ensemble_vars, backend, workflow>>

\* line 677: verified_results.get(sha256) once more, None being the empty tuple
ReadExisting(p) ==
    /\ calls[p].pc = "existing"
    /\ calls' = [calls EXCEPT ![p] =
                    [pc |-> "write",
                     existing_record |->
                         IF calls[p].image.sha256 \in DOMAIN verified_results
                         THEN <<verified_results[calls[p].image.sha256]>>
                         ELSE <<>>]
                    @@ calls[p]]
    /\ UNCHANGED <<verified_results, clock, history, ensemble_vars, backend, workflow>>

\* lines 678-708: the record is written and the result returned
WriteRecord(p) ==
    /\ calls[p].pc = "write"
    /\ verified_results' =
          (calls[p].image.sha256 :>
               record_of(calls[p].image.sha256, calls[p].existing_record,
                         calls[p].metadata, calls[p].result, calls[p].timestamp))
          @@ verified_results
    /\ calls' = [calls EXCEPT ![p] =
                    [pc |-> "done", path |-> "computed", image |-> calls[p].image,
                     metadata |-> calls[p].metadata, outcome |-> calls[p].outcome,
                     request_timestamp |-> calls[p].request_timestamp,
                     returned |-> calls[p].result]]
    /\ history' = [history EXCEPT !.served[calls[p].image.sha256] =
                                     IF calls[p].request_timestamp > @
                                     THEN calls[p].request_timestamp ELSE @]
    /\ UNCHANGED <<clock, ensemble_vars, backend, workflow>>

PipelineNext ==
    \E p \in Procs :
        \/ StartCall(p, ConcurrentInputs)
        \/ Lookup(p)
        \/ CacheHit(p)
        \/ Compute(p, ConcurrentOutcomes)
        \/ ReadExisting(p)
        \/ WriteRecord(p)

PipelineSpec == Init /\ [][PipelineNext]_vars

\* one container: the calls follow one another
SequentialNext ==
    \/ StartCall(1, CallInputs)
    \/ Lookup(1)
    \/ CacheHit(1)
    \/ Compute(1, SpaiOutcomes)
    \/ ReadExisting(1)
    \/ WriteRecord(1)

SequentialSpec == Init /\ [][SequentialNext]_vars

----------------------------------------------------------------------------
(* Properties.                                                             *)

\* the decision constant the specification names (0.70)
THRESHOLD == R(70, 100)

\* the fusion engine has run: on its own, or inside detect_ai_generated
FusionRan == op = "ensemble" \/ (op = "detect" /\ inp.open = "ok")

\* the signal results the fusion engine was given
FusionResults == IF op = "ensemble" THEN inp ELSE out.detailed_analysis

\* the signals of the configured four that are marked available
AvailableSet(results) == {m \in DOMAIN results \cap MethodSet : results[m].available}

RECURSIVE WeightSum(_, _)
WeightSum(results, S) ==
    IF S = {} THEN Zero
    ELSE LET m == CHOOSE x \in S : TRUE
         IN  RAdd(RMul(weights(m), results[m].confidence), WeightSum(results, S \ {m}))

RECURSIVE WeightedScoreSum(_, _)
WeightedScoreSum(results, S) ==
    IF S = {} THEN Zero
    ELSE LET m == CHOOSE x \in S : TRUE
         IN  RAdd(RMul(results[m].score, RMul(weights(m), results[m].confidence)),
                  WeightedScoreSum(results, S \ {m}))

\* C1: the raw score of the fusion engine is sum(score x static weight x
\* confidence) / sum(static weight x confidence) over the available signals
\* only, and exactly 0.5 when no signal is available.
C1_RawScoreIsWeightedMean ==
    FusionRan =>
        out.evidence.final_score =
            IF AvailableSet(FusionResults) = {} THEN Half
            ELSE RDiv(WeightedScoreSum(FusionResults, AvailableSet(FusionResults)),
                      WeightSum(FusionResults, AvailableSet(FusionResults)))

\* a fused score over some but not all of the signals given
C1_Witness ==
    /\ op = "ensemble"
    /\ AvailableSet(inp) # {}
    /\ \E m \in DOMAIN inp : ~inp[m].available
    /\ out.evidence.final_score # Half

\* the calibration the specification gives, for a verdict and its raw score
SpecCalibration(is_manipulated, raw_score) ==
    IF is_manipulated
    THEN PyMin(RDiv(RSub(raw_score, THRESHOLD), RSub(One, THRESHOLD)), One)
    ELSE PyMin(RDiv(RSub(THRESHOLD, raw_score), THRESHOLD), One)

\* C2: one constant THRESHOLD = 0.70 decides every verdict: the fusion engine
\* compares against it and reports it as its decision threshold, and
\* ManipulationDetector.analyze compares against the same number.
C2_SingleThreshold ==
    /\ FusionRan =>
          /\ out.is_ai_generated = RGt(out.evidence.final_score, THRESHOLD)
          /\ out.evidence.decision_threshold = THRESHOLD
          /\ out.locals.calibrated =
                SpecCalibration(RGt(out.evidence.final_score, THRESHOLD),
                                out.evidence.final_score)
    /\ (op = "analyze" /\ ~out.raised) =>
          out.is_manipulated = RGt(out.locals.confidence, THRESHOLD)

\* C3: before the agreement bonus the confidence is
\* min((raw - THRESHOLD) / (1 - THRESHOLD), 1) for a manipulated verdict and
\* min((THRESHOLD - raw) / THRESHOLD, 1) for an authentic one, THRESHOLD = 0.70,
\* in _ensemble_decision and in ManipulationDetector.analyze alike.
C3_Calibration ==
    /\ FusionRan =>
          out.locals.calibrated =
              SpecCalibration(out.is_ai_generated, out.evidence.final_score)
    /\ (op = "analyze" /\ ~out.raised) =>
          out.confidence = SpecCalibration(out.is_manipulated, out.locals.confidence)

\* C4: the confidence is oriented toward the verdict and is not the raw
\* suspicion score: it tends to 0 as the raw score approaches THRESHOLD from
\* either side, never exceeding |raw - THRESHOLD| / min(THRESHOLD, 1 - THRESHOLD),
\* the envelope of the two calibration branches.
C4_ConfidenceOriented ==
    /\ (op = "analyze" /\ ~out.raised) =>
          RLe(RMul(out.confidence, RSub(One, THRESHOLD)),
              RAbs(RSub(out.locals.confidence, THRESHOLD)))
    /\ (FusionRan /\ ~IsNaN(out.evidence.final_score)) =>
          RLe(RMul(out.confidence, RSub(One, THRESHOLD)),
              RAbs(RSub(out.evidence.final_score, THRESHOLD)))

\* the scores and the confidence of one signal result
SignalInUnit(r) ==
    /\ InUnit(r.score)
    /\ "details" \in DOMAIN r => \A k \in DOMAIN r.details : InUnit(r.details[k])

\* C5: every per-signal score (ELA, frequency, noise, spectral, artifact and
\* its three sub-scores, consistency), the fused raw score and the verdict
\* confidence lie in [0, 1], for every input.
C5_ScoresInUnitInterval ==
    /\ (op = "analyze" /\ ~out.raised) =>
          /\ InUnit(out.ela_score)
          /\ InUnit(out.frequency_analysis.score)
          /\ InUnit(out.noise_score)
          /\ InUnit(out.locals.confidence)
          /\ InUnit(out.confidence)
    /\ (op = "detect" /\ ~out.raised) =>
          \A m \in DOMAIN out.detailed_analysis : SignalInUnit(out.detailed_analysis[m])
    /\ FusionRan =>
          /\ InUnit(out.evidence.final_score)
          /\ InUnit(out.confidence)

\* C6: the fusion engine never raises, and an empty or fully unavailable
\* signal set gives the maximally uncertain verdict: raw score 0.5,
\* is_manipulated = false.
C6_FusionNeverRaises ==
    FusionRan =>
        /\ ~out.raised
        /\ AvailableSet(FusionResults) = {} =>
              /\ out.evidence.final_score = Half
              /\ ~out.is_ai_generated

\* the fusion engine was given four signals, none of them available
C6_Witness ==
    /\ op = "ensemble"
    /\ DOMAIN inp = MethodSet
    /\ AvailableSet(inp) = {}
    /\ out.evidence.final_score = Half

\* the weight a signal has in a fused score: none when it was not computed
WeightIf(computed, weight) == IF computed THEN weight ELSE Zero

\* the mean of three scores under the weights of those that were computed
MeanOfComputed(s1, w1, s2, w2, s3, w3) ==
    RDiv(RAdd(RAdd(RMul(s1, w1), RMul(s2, w2)), RMul(s3, w3)),
         RAdd(RAdd(w1, w2), w3))

\* the noise map has at least one block for the two loops of _noise_analysis
HasNoiseBlock(n) == BlockRange(n.h, 32) # {} /\ BlockRange(n.w, 32) # {}

\* C7: an analyzer or artifact sub-measure that cannot compute its signal
\* (an exception inside it, an image smaller than its block size) is marked
\* unavailable and adds nothing to the weighted sum or the weight total; it
\* never enters the fused score as a substitute 0.0 or 0.5 with its normal
\* weight, and the verdict is still returned.
C7_FailedSignalExcluded ==
    /\ (op = "analyze" /\ inp.open = "ok") =>
          /\ ~out.raised
          /\ LET we == WeightIf(inp.ela.tag = "ok", R(4, 10))
                 wf == WeightIf(inp.freq.tag = "ok", R(3, 10))
                 wn == WeightIf(inp.noise.tag = "ok" /\ HasNoiseBlock(inp.noise), R(3, 10))
             IN  out.locals.confidence =
                     IF we = Zero /\ wf = Zero /\ wn = Zero THEN Half
                     ELSE MeanOfComputed(out.ela_score, we,
                                         out.frequency_analysis.score, wf,
                                         out.noise_score, wn)
    /\ (op = "detect" /\ inp.open = "ok") =>
          /\ ~out.raised
          /\ inp.spectral.tag = "error" => ~out.detailed_analysis.spectral_analysis.available
          /\ inp.consistency.tag = "error" =>
                ~out.detailed_analysis.consistency_analysis.available
          /\ inp.artifact.tag = "error" => ~out.detailed_analysis.artifact_analysis.available
          /\ \A i \in 1..Len(out.evidence.methods_used) :
                out.detailed_analysis[out.evidence.methods_used[i]].available
          /\ inp.artifact.tag = "ok" =>
                LET wg == WeightIf(inp.artifact.grid.tag = "ok", R(4, 10))
                    wb == WeightIf(inp.artifact.blur.tag = "ok", R(3, 10))
                    we == WeightIf(inp.artifact.edge.tag \in {"ok", "single"}, R(3, 10))
                    a == out.detailed_analysis.artifact_analysis
                IN  IF wg = Zero /\ wb = Zero /\ we = Zero THEN ~a.available
                    ELSE /\ a.available
                         /\ a.score = MeanOfComputed(a.details.grid_pattern, wg,
                                                     a.details.blur_inconsistency, wb,
                                                     a.details.edge_incoherence, we)

\* C8: the confidence is the calibrated value times
\* 0.7 + (available signals / 4) x 0.3, capped at 1.0, the available signals
\* being exactly those that entered the weighted sum.
C8_AgreementBonus ==
    FusionRan =>
        /\ out.evidence.methods_used =
              SelectSeq(Methods, LAMBDA m : m \in AvailableSet(FusionResults))
        /\ out.confidence =
              PyMin(RMul(out.locals.calibrated,
                         RAdd(R(7, 10),
                              RMul(R(Cardinality(AvailableSet(FusionResults)), 4),
                                   R(3, 10)))),
                    One)

\* a verdict over exactly two available signals with a bonus below 1
C8_Witness ==
    /\ op = "ensemble"
    /\ Cardinality(AvailableSet(inp)) = 2
    /\ RLt(Zero, out.confidence)
    /\ RLt(out.confidence, out.locals.calibrated)

\* the confidence _ensemble_decision gives a raw score with n available signals
ConfidenceAt(final_score, n_available) ==
    agreement_boost(calibrate(ai_decision(final_score), final_score), n_available)

\* C9: at equal raw score the confidence is non-decreasing in the number of
\* available signals; with four signals it is at least that with two.
C9_MoreSignalsMoreConfidence ==
    (FusionRan /\ REq(out.evidence.final_score, out.evidence.final_score)) =>
        /\ out.confidence =
              ConfidenceAt(out.evidence.final_score, Len(out.evidence.methods_used))
        /\ \A k \in 0..3 :
              RLe(ConfidenceAt(out.evidence.final_score, k),
                  ConfidenceAt(out.evidence.final_score, k + 1))
        /\ RLe(ConfidenceAt(out.evidence.final_score, 2),
               ConfidenceAt(out.evidence.final_score, 4))

\* a verdict over two signals whose confidence is below that of four signals
\* at the same raw score
C9_Witness ==
    /\ op = "ensemble"
    /\ Len(out.evidence.methods_used) = 2
    /\ RLt(out.confidence, ConfidenceAt(out.evidence.final_score, 4))

\* C10: manipulation_type is non-null exactly when is_manipulated; then it is
\* AI_GENERATED if the ELA score > 0.85, else SPLICE if the frequency score
\* > 0.75, else CLONE.
C10_ManipulationType ==
    (op = "analyze" /\ ~out.raised) =>
        /\ (out.type # "None") = out.is_manipulated
        /\ out.is_manipulated =>
              out.type =
                  IF RGt(out.ela_score, R(85, 100)) THEN "ai_generated"
                  ELSE IF RGt(out.frequency_analysis.score, R(75, 100)) THEN "splice"
                  ELSE "clone"

\* a manipulated verdict with a frequency score above 0.75 that is not a splice
C10_Witness ==
    /\ op = "analyze"
    /\ ~out.raised
    /\ out.is_manipulated
    /\ RGt(out.frequency_analysis.score, R(75, 100))
    /\ out.type = "ai_generated"

\* C11: two analyses of the same input by the same analyzer, in any order and
\* with other analyses in between, give identical scores, classification and
\* verdict; no result depends on unseeded randomness when a model or signal
\* is unavailable.
C11_Determinism ==
    \A i \in 1..Len(runs) : \A j \in 1..Len(runs) :
        runs[i].input = runs[j].input => runs[i].result = runs[j].result

\* C12: every region the localizer emits has a bounding box (x1, y1, x2, y2)
\* with 0 <= x1 < x2 <= width and 0 <= y1 < y2 <= height of the source image,
\* also when the map is the substitute produced after an ELA failure.
C12_RegionContainment ==
    (op = "analyze" /\ ~out.raised) =>
        \A i \in 1..Len(out.areas) :
            /\ 0 <= out.areas[i].region[1]
            /\ out.areas[i].region[1] < out.areas[i].region[3]
            /\ out.areas[i].region[3] <= inp.ela.width
            /\ 0 <= out.areas[i].region[2]
            /\ out.areas[i].region[2] < out.areas[i].region[4]
            /\ out.areas[i].region[4] <= inp.ela.height

\* a region that touches the right and the bottom border of the image
C12_Witness ==
    /\ op = "analyze"
    /\ ~out.raised
    /\ \E i \in 1..Len(out.areas) :
          /\ out.areas[i].region[3] = inp.ela.width
          /\ out.areas[i].region[4] = inp.ela.height

\* the regions the specification asks for: one per component of grey level
\* >= 30 and area >= 1000, in the order of the components
RECURSIVE SpecRegions(_)
SpecRegions(comps) ==
    IF comps = <<>> THEN <<>>
    ELSE (IF Head(comps).gray >= 30 /\ Head(comps).area >= 1000
          THEN <<<<Head(comps).x, Head(comps).y, Head(comps).x + Head(comps).w,
                   Head(comps).y + Head(comps).h>>>>
          ELSE <<>>) \o SpecRegions(Tail(comps))

\* C13: the localizer emits exactly one region per connected component of
\* the mask of pixels with grey difference >= 30 whose area is at least 1000:
\* a pixel of exactly 30 is foreground, a component of exactly 1000 is kept,
\* smaller ones are discarded, overlapping regions are not merged.
C13_RegionPerComponent ==
    (op = "analyze" /\ ~out.raised /\ inp.ela.tag = "ok") =>
        [i \in 1..Len(out.areas) |-> out.areas[i].region]
            = SpecRegions(inp.ela.map.components)

\* the variances of all complete 32x32 blocks of the noise map n, row by row
AllBlockVariances(n) ==
    [k \in 1..((n.h \div 32) * (n.w \div 32)) |->
        R(n.var[<<(k - 1) \div (n.w \div 32), (k - 1) % (n.w \div 32)>>], 1)]

\* C14: the noise analyzer takes the block variances over exactly the
\* complete non-overlapping 32x32 blocks of the noise map, floor(h/32) x
\* floor(w/32) of them (4 for a 64x64 map); only partial blocks at the right
\* and bottom borders are dropped.
C14_AllCompleteBlocks ==
    (op = "analyze" /\ ~out.raised /\ inp.noise.tag = "ok") =>
        out.noise_score = noise_score_of(AllBlockVariances(inp.noise))

\* C15: the noise score is min(V / 100, 1.0), V the variance (not the
\* standard deviation) across the block variances.
C15_VarianceOfVariances ==
    (op = "analyze" /\ ~out.raised /\ inp.noise.tag = "ok") =>
        LET variances ==
                block_variances(inp.noise, Cardinality(BlockRange(inp.noise.h, 32)),
                                Cardinality(BlockRange(inp.noise.w, 32)), 0)
        IN  out.noise_score =
                IF Len(variances) > 0
                THEN PyMin(RDiv(NpVar(variances), R(100, 1)), One)
                ELSE Zero

\* log2(1 + m) for m + 1 a power of two
RECURSIVE Log2(_)
Log2(n) == IF n <= 1 THEN 0 ELSE 1 + Log2(n \div 2)

\* the energy of a set of bins in the log-magnitude spectrum
RECURSIVE LogEnergy(_)
LogEnergy(ms) == IF ms = <<>> THEN 0 ELSE Log2(1 + Head(ms)) + LogEnergy(Tail(ms))

\* C16: the frequency score is min(2 x |high_freq_ratio - 0.5|, 1.0) with
\* high_freq_ratio the energy outside the central disk of radius 30 over the
\* total energy of the log-magnitude spectrum, and high_freq_ratio is defined
\* when the total energy is 0.
C16_FrequencyScore ==
    (op = "analyze" /\ ~out.raised /\ inp.freq.tag = "ok") =>
        /\ ~IsNaN(out.frequency_analysis.high_freq)
        /\ LogEnergy(inp.freq.low) + LogEnergy(inp.freq.high) > 0 =>
              /\ out.frequency_analysis.high_freq =
                    R(LogEnergy(inp.freq.high),
                      LogEnergy(inp.freq.low) + LogEnergy(inp.freq.high))
              /\ out.frequency_analysis.score =
                    PyMin(RMul(R(2, 1),
                               RAbs(RSub(R(LogEnergy(inp.freq.high),
                                           LogEnergy(inp.freq.low)
                                               + LogEnergy(inp.freq.high)),
                                         Half))),
                          One)

\* the analysed image is uniform and at least 128x128: all spectral energy in
\* the zero-frequency component, zero noise in every block
IsUniformImage ==
    /\ inp.open = "ok"
    /\ inp.freq.tag = "ok"
    /\ magnitude_sum(inp.freq.high) = 0
    /\ inp.noise.tag = "ok"
    /\ inp.noise.h >= 128
    /\ inp.noise.w >= 128
    /\ \A b \in DOMAIN inp.noise.var : inp.noise.var[b] = 0

\* C17: for a uniform solid-colour image of at least 128x128 the frequency
\* score and the noise score are approximately 0 (at most 0.1) and the raw
\* fusion score is below 0.70, so the verdict is authentic.
C17_UniformImageAuthentic ==
    (op = "analyze" /\ IsUniformImage) =>
        /\ ~out.raised
        /\ RLe(out.frequency_analysis.score, R(1, 10))
        /\ RLe(out.noise_score, R(1, 10))
        /\ RLt(out.locals.confidence, R(70, 100))
        /\ ~out.is_manipulated

\* C18: the ELA score is min(mean / 50, 1.0), mean being the mean of the
\* per-pixel absolute differences between the image and its re-encoding; it
\* does not depend on the largest single difference.
C18_ElaScoreOfMean ==
    (op = "analyze" /\ ~out.raised /\ inp.ela.tag = "ok") =>
        out.ela_score = PyMin(RDiv(inp.ela.mean_diff, R(50, 1)), One)

\* C19: when re-encoding fails the ELA analyzer does not raise and returns
\* its signal as unavailable with score 0.0 (an unavailable signal has no
\* weight in the raw score); the analysis continues and the localizer emits
\* no regions from the map returned in that case.
C19_ElaFailure ==
    (op = "analyze" /\ inp.open = "ok" /\ inp.ela.tag = "error") =>
        /\ ~out.raised
        /\ out.ela_score = Zero
        /\ out.areas = <<>>
        /\ out.locals.confidence =
              MeanOfComputed(out.ela_score, Zero,
                             out.frequency_analysis.score, R(3, 10),
                             out.noise_score, R(3, 10))

\* C20: the fusion step computes the verdict only after every launched
\* analyzer has returned its result, successfully or as unavailable; while
\* analyzers are still awaited there is no verdict, and no verdict is produced
\* from a partial set of results.
C20_FusionAfterAllAnalyzers ==
    /\ [](op = "detecting" => "is_ai_generated" \notin DOMAIN out)
    /\ [](op = "analyzing" => "is_manipulated" \notin DOMAIN out)
    /\ [][/\ (op # "detect" /\ op' = "detect" /\ inp'.open = "ok") =>
                /\ DOMAIN out.results = MethodSet
                /\ out'.detailed_analysis = out.results
          /\ (op # "analyze" /\ op' = "analyze" /\ inp'.open = "ok") =>
                /\ DOMAIN out.results = {"ela", "freq", "noise", "areas"}
                /\ out'.ela_score = out.results.ela.score
                /\ out'.frequency_analysis = out.results.freq
                /\ out'.noise_score = out.results.noise
                /\ out'.areas = out.results.areas]_vars

\* a verdict over four returned analyzers, one of them returned as unavailable
C20_Witness ==
    /\ op = "detect"
    /\ inp.open = "ok"
    /\ DOMAIN out.detailed_analysis = MethodSet
    /\ \E m \in MethodSet : ~out.detailed_analysis[m].available
    /\ \E m \in MethodSet : out.detailed_analysis[m].available

----------------------------------------------------------------------------
(* Properties of analyze_image and its verification memory.                *)

\* the calls that have returned a result
Returned(p) == calls[p].pc = "done" /\ calls[p].path \in {"hit", "computed"}

\* C21: for every key the detection computation runs at most once, whatever
\* the interleaving of the calls: no two calls both miss the cache and both
\* compute and write.
C21_AtMostOneComputation ==
    \A k \in Keys : Len(history.computed[k]) <= 1

\* the results that analysing the arguments of a call can give on their own,
\* whatever SPAI answers and however long it takes
FreshResults(image, metadata) ==
    {pipeline_result(exif_sources(image) \cup metadata_sources(metadata),
                     spai_detection(outcome), t) :
        outcome \in SpaiOutcomes, t \in 0..(2 * MaxCalls)}

\* C22: no state persists between images: the detectors keep the
\* configuration they were built with, and the result of analysing an image
\* is a result of that image alone, whichever images were analysed before.
C22_NoStateBetweenImages ==
    /\ ai_threshold = Half /\ ela_quality = 90 /\ threshold = 15
    /\ \A p \in Procs :
          Returned(p) =>
              calls[p].returned \in FreshResults(calls[p].image, calls[p].metadata)

\* the fields of a result that make its verdict
Verdict(result) ==
    [is_ai_generated |-> result.is_ai_generated,
     is_manipulated |-> result.is_manipulated,
     confidence |-> result.confidence,
     manipulation_type |-> result.manipulation_type]

\* C26: a call on bytes that already have a record returns the verdict of the
\* first result computed for those bytes, with cache_hit true and
\* processing_time 0.0, whatever metadata comes with the call.
C26_CacheHitReturnsFirstVerdict ==
    \A p \in Procs :
        (calls[p].pc = "done" /\ calls[p].path = "hit") =>
            /\ Verdict(calls[p].returned)
                   = Verdict(history.computed[calls[p].image.sha256][1])
            /\ calls[p].returned.cache_hit
            /\ calls[p].returned.processing_time = 0

\* C27: for every key of verified_results: created_at never changes once
\* set, last_seen is the timestamp of the most recent request for the key
\* (it is not older than the request of any call that has returned), the
\* sha256 field equals the key, and no metadata key recorded earlier is lost.
C27_RecordInvariants ==
    /\ [](\A k \in DOMAIN verified_results :
              /\ verified_results[k].sha256 = k
              /\ verified_results[k].last_seen >= history.served[k])
    /\ [][\A k \in DOMAIN verified_results :
              /\ k \in DOMAIN verified_results'
              /\ verified_results'[k].created_at = verified_results[k].created_at
              /\ DOMAIN verified_results[k].metadata
                     \subseteq DOMAIN verified_results'[k].metadata]_vars

\* C28: whenever the EXIF or the supplied metadata holds an AI keyword, the
\* computed result is AI-generated and manipulated of type 'ai' with a
\* confidence of at least 0.95, whatever SPAI answered; is_manipulated always
\* equals is_ai_generated, and manipulation_type is None exactly when both
\* are false.
C28_MetadataIndicatorDecides ==
    \A p \in Procs :
        Returned(p) =>
            /\ calls[p].returned.is_manipulated = calls[p].returned.is_ai_generated
            /\ (calls[p].returned.manipulation_type = None)
                   = ~calls[p].returned.is_ai_generated
            /\ calls[p].returned.manipulation_type \in {"ai", None}
            /\ ( /\ calls[p].path = "computed"
                 /\ exif_sources(calls[p].image)
                        \cup metadata_sources(calls[p].metadata) # {} ) =>
                    /\ calls[p].returned.is_ai_generated
                    /\ calls[p].returned.is_manipulated
                    /\ calls[p].returned.manipulation_type = "ai"
                    /\ RLe(R(95, 100), calls[p].returned.confidence)

\* a keyword in the metadata alone, found while SPAI called the image
\* authentic, or while SPAI was down
C28_Witness ==
    \E p \in Procs :
        /\ Returned(p) /\ calls[p].path = "computed"
        /\ exif_sources(calls[p].image) = {}
        /\ metadata_sources(calls[p].metadata) # {}
        /\ calls[p].returned.ai_detection.label \in {"authentic", "unknown"}
        /\ calls[p].returned.confidence = R(95, 100)

\* detect_with_spai raised, or answered without a score
SpaiFailed(outcome) == outcome.tag = "raise" \/ "score" \notin DOMAIN outcome.val

\* C29: a failure of SPAI never aborts analyze_image: the call returns a
\* result with ai_detection.status 'unavailable' and, when no AI keyword was
\* found, with is_ai_generated false and confidence exactly 0.5; only bytes
\* that do not open make the call raise.
C29_SpaiFailureTolerated ==
    \A p \in Procs :
        /\ (calls[p].pc = "done" /\ calls[p].path = "raised") => ~calls[p].image.opens
        /\ (calls[p].pc \in {"existing", "write"} /\ SpaiFailed(calls[p].outcome)) =>
               calls[p].result.ai_detection.status = "unavailable"
        /\ ( /\ calls[p].pc = "done" /\ calls[p].path = "computed"
             /\ SpaiFailed(calls[p].outcome) ) =>
               /\ calls[p].returned.ai_detection.status = "unavailable"
               /\ ( exif_sources(calls[p].image)
                        \cup metadata_sources(calls[p].metadata) = {} ) =>
                      /\ ~calls[p].returned.is_ai_generated
                      /\ calls[p].returned.confidence = Half

\* SPAI answered without a score for bytes and metadata free of keywords,
\* and the call returned
C29_Witness ==
    \E p \in Procs :
        /\ calls[p].pc = "done" /\ calls[p].path = "computed"
        /\ calls[p].outcome.tag = "payload" /\ SpaiFailed(calls[p].outcome)
        /\ exif_sources(calls[p].image) \cup metadata_sources(calls[p].metadata) = {}
        /\ calls[p].returned.confidence = Half

\* C30: a verdict computed while SPAI was unavailable is never served as a
\* cache hit: a later call with the same bytes runs detection again, so the
\* result of every cache hit has ai_detection.status 'ok'.
C30_UnavailableVerdictNotServed ==
    \A p \in Procs :
        (calls[p].pc = "done" /\ calls[p].path = "hit") =>
            calls[p].returned.ai_detection.status = "ok"

----------------------------------------------------------------------------
(* main.py: startup_event and POST /api/verify.  A global is "object" once *)
(* it is assigned an instance and None before; UploadFile.content_type is  *)
(* a string or, for a part sent without a Content-Type header, None.       *)

\* line 196
file_size_limit == 10 * 1024 * 1024

\* str.startswith
startswith(text, prefix) ==
    /\ Len(text) >= Len(prefix)
    /\ SubSeq(text, 1, Len(prefix)) = prefix

\* lines 225-239: the service the handler calls, by the truth of the globals
service_of(globals) ==
    IF globals.runpod_client # None THEN "runpod_client"
    ELSE IF globals.unified_vision_beast # None THEN "unified_vision_beast"
    ELSE IF globals.ultra_vision_pipeline # None THEN "ultra_vision_pipeline"
    ELSE None

\* lines 255-268: an HTTPException passes through, any other exception
\* becomes a 200 answer with success False
HttpError(status_code) ==
    [status_code |-> status_code, success |-> None, invoked |-> None]

\* lines 185-268: the response to a request; results is what the service
\* called at lines 226-234 does: it returns a dict, or it raises
verify_image(globals, file, results) ==
    IF file.content_type.tag = "none"
    THEN [status_code |-> 200, success |-> "False", invoked |-> None]
    ELSE IF ~startswith(file.content_type.val, <<"i", "m", "a", "g", "e", "/">>)
    THEN HttpError(400)
    ELSE IF file.size > file_size_limit THEN HttpError(400)
    ELSE IF file.size = 0 THEN HttpError(400)
    ELSE IF file.format \notin {"JPEG", "PNG", "WEBP"} THEN HttpError(400)
    ELSE IF service_of(globals) = None THEN HttpError(500)
    ELSE IF results.tag = "raise"
    THEN [status_code |-> 200, success |-> "False", invoked |-> service_of(globals)]
    ELSE [status_code |-> 200, success |-> results.success,
          invoked |-> service_of(globals)]

\* the uploads: content types, sizes around the limit, what PIL makes of them
ContentTypes ==
    {[tag |-> "none"], Str(<<>>),
     Str(<<"t", "e", "x", "t", "/", "p", "l", "a", "i", "n">>),
     Str(<<"i", "m", "a", "g", "e", "/", "p", "n", "g">>)}

Uploads ==
    {[content_type |-> ct, size |-> IF fmt = "empty" THEN 0 ELSE n, format |-> fmt] :
        ct \in ContentTypes,
        n \in {1, file_size_limit, file_size_limit + 1},
        fmt \in {"PNG", "WEBP", "GIF", "invalid", "empty"}}

\* what the called service does
ServiceResults ==
    {[tag |-> "raise"], [tag |-> "dict", success |-> "True"],
     [tag |-> "dict", success |-> "False"]}

\* lines 55-94: the RunPod client is created and its connection tested; the
\* two local pipelines are built and initialised, and both globals are set
\* back to None if that raises
StartupEvent ==
    /\ backend.pc = "down"
    /\ \E status \in {"connected", "error"},
          local \in {[raised |-> TRUE, ultra_ready |-> FALSE, beast_ready |-> FALSE]}
                    \cup {[raised |-> FALSE, ultra_ready |-> u, beast_ready |-> b] :
                             u \in BOOLEAN, b \in BOOLEAN} :
          backend' = [pc |-> "up",
                      runpod_status |-> status,
                      ultra_ready |-> local.ultra_ready,
                      beast_ready |-> local.beast_ready,
                      globals |->
                          [runpod_client |-> "object",
                           ultra_vision_pipeline |->
                               IF local.raised THEN None ELSE "object",
                           unified_vision_beast |->
                               IF local.raised THEN None ELSE "object"]]
    /\ UNCHANGED <<ensemble_vars, pipeline_vars, workflow>>

\* lines 173-268: a request is answered
VerifyImage ==
    /\ backend.pc \in {"up", "served"}
    /\ \E file \in Uploads, results \in ServiceResults :
          backend' = [pc |-> "served", file |-> file,
                      response |-> verify_image(backend.globals, file, results)]
                     @@ backend
    /\ UNCHANGED <<ensemble_vars, pipeline_vars, workflow>>

BackendNext ==
    \/ StartupEvent
    \/ VerifyImage

BackendSpec == Init /\ [][BackendNext]_vars

----------------------------------------------------------------------------
(* Properties of the HTTP backend.                                         *)

\* the upload's content type does not start with 'image/'; a missing content
\* type does not start with anything
NotAnImageType(file) ==
    \/ file.content_type.tag = "none"
    \/ ~startswith(file.content_type.val, <<"i", "m", "a", "g", "e", "/">>)

\* C23: POST /api/verify answers HTTP 400, invoking no analysis service,
\* whenever the content type does not start with 'image/', the file is empty
\* or larger than 10 MB; never a 200 answer with success false.
C23_RejectionsAre400 ==
    ( /\ backend.pc = "served"
      /\ \/ NotAnImageType(backend.file)
         \/ backend.file.size = 0
         \/ backend.file.size > 10 * 1024 * 1024 ) =>
        /\ backend.response.status_code = 400
        /\ backend.response.invoked = None

\* C24: when the RunPod connection test at startup did not report
\* 'connected', an accepted request is served by UnifiedVisionBeast if it
\* initialised, otherwise by UltraVisionPipeline if that initialised, and
\* HTTP 500 is the answer only when none of the three is available.
C24_RunPodFirstThenLocal ==
    ( /\ backend.pc = "served"
      /\ backend.response.status_code \in {200, 500}
      /\ ~NotAnImageType(backend.file)
      /\ backend.runpod_status # "connected" ) =>
        /\ backend.response.invoked =
               IF backend.beast_ready THEN "unified_vision_beast"
               ELSE IF backend.ultra_ready THEN "ultra_vision_pipeline"
               ELSE None
        /\ (backend.response.status_code = 500)
               = (~backend.beast_ready /\ ~backend.ultra_ready)

----------------------------------------------------------------------------
(* workflow_orchestrator.py: WorkflowOrchestrator.process_image, one step  *)
(* per stage.  A Python local exists once a statement has assigned it;      *)
(* reading it before raises UnboundLocalError, an Exception.                *)

\* lines 101-182: the steps of the try block, in program order
Stages ==
    <<"dinov3", "spatial", "reverse_search", "store_embedding", "summary",
      "watermark", "return">>

\* the locals and parameters each step reads
stage_reads(stage) ==
    CASE stage = "dinov3" -> {"image"}
      [] stage = "spatial" -> {"image", "feature_vector"}
      [] stage = "reverse_search" -> {"image", "feature_vector"}
      [] stage = "store_embedding" ->
            {"filename", "dinov3_results", "processing_time", "image_hash",
             "feature_vector"}
      [] stage = "summary" ->
            {"dinov3_results", "spatial_results", "reverse_search_results", "image"}
      [] stage = "watermark" -> {"dinov3_results", "image", "combined_analysis"}
      [] stage = "return" ->
            {"start_time", "image_hash", "authenticity_score", "dinov3_results",
             "ai_summary", "spatial_results", "reverse_search_results",
             "watermarked_base64"}

\* the locals each step assigns
stage_writes(stage) ==
    CASE stage = "dinov3" -> {"dinov3_results", "features", "feature_vector"}
      [] stage = "spatial" -> {"spatial_results"}
      [] stage = "reverse_search" -> {"reverse_search_results"}
      [] stage = "store_embedding" -> {"metadata"}
      [] stage = "summary" -> {"combined_analysis", "ai_summary"}
      [] stage = "watermark" ->
            {"authenticity_score", "watermarked_image", "watermarked_base64"}
      [] stage = "return" -> {"processing_time", "final_results"}

\* lines 184-195: the error branch
error_results(error, processing_time) ==
    [success |-> FALSE, error |-> error, processing_time |-> processing_time,
     authenticity_score |-> 0, classification |-> "ERROR"]

\* lines 25-77: __init__ and initialize: the services are built (Gemini may
\* be missing), or building one raises and is_initialized stays False
Initialize ==
    /\ workflow.pc = "new"
    /\ \E ok \in BOOLEAN, gemini \in BOOLEAN :
          workflow' = [pc |-> "idle", is_initialized |-> ok,
                       gemini_service |-> ok /\ gemini]
    /\ UNCHANGED <<ensemble_vars, pipeline_vars, backend>>

\* lines 79-99, and test_workflow lines 362-367: process_image is called; it
\* raises RuntimeError on an orchestrator that is not initialized
ProcessImage ==
    /\ workflow.pc = "idle"
    /\ \E caller \in {"process_image", "test_workflow"},
          score \in {50, 95, 99}, elapsed \in {1, 2} :
          workflow' =
              IF ~workflow.is_initialized
              THEN [pc |-> "done", caller |-> caller, service_failed |-> FALSE,
                    ran |-> <<>>, results |-> [raised |-> "RuntimeError"]] @@ workflow
              ELSE [pc |-> "running", caller |-> caller, score |-> score,
                    elapsed |-> elapsed, service_failed |-> FALSE, ran |-> <<>>,
                    assigned |-> {"image", "filename", "start_time", "image_hash"}]
                   @@ workflow
    /\ UNCHANGED <<ensemble_vars, pipeline_vars, backend>>

\* lines 101-195: the next step of the try block runs: it reads a local that
\* no statement has assigned yet, or its service raises, or it completes
ProcessStep ==
    /\ workflow.pc = "running"
    /\ \E raises \in BOOLEAN :
          workflow' =
              IF ~(stage_reads(Stages[Len(workflow.ran) + 1]) \subseteq workflow.assigned)
              THEN [pc |-> "done",
                    results |-> error_results("UnboundLocalError", workflow.elapsed)]
                   @@ workflow
              ELSE IF raises /\ Stages[Len(workflow.ran) + 1] # "return"
              THEN [pc |-> "done", service_failed |-> TRUE,
                    results |-> error_results("service", workflow.elapsed)]
                   @@ workflow
              ELSE IF Stages[Len(workflow.ran) + 1] = "return"
              THEN [pc |-> "done",
                    ran |-> Append(workflow.ran, "return"),
                    results |-> [success |-> TRUE,
                                 processing_time |-> workflow.elapsed,
                                 authenticity_score |-> workflow.score,
                                 watermarking |-> [applied |-> workflow.score >= 95]]]
                   @@ workflow
              ELSE [ran |-> Append(workflow.ran, Stages[Len(workflow.ran) + 1]),
                    assigned |-> workflow.assigned
                                    \cup stage_writes(Stages[Len(workflow.ran) + 1])]
                   @@ workflow
    /\ UNCHANGED <<ensemble_vars, pipeline_vars, backend>>

WorkflowNext ==
    \/ Initialize
    \/ ProcessImage
    \/ ProcessStep

WorkflowSpec == Init /\ [][WorkflowNext]_vars

----------------------------------------------------------------------------
(* Properties of the workflow.                                             *)

\* C25: on an initialized orchestrator whose services all succeed,
\* process_image runs its stages in order to the end and returns success
\* True with the measured processing_time; the error branch is reached only
\* when a service fails.
C25_WorkflowCompletes ==
    ( /\ workflow.pc = "done"
      /\ workflow.is_initialized
      /\ ~workflow.service_failed ) =>
        /\ workflow.ran = Stages
        /\ workflow.results.success
        /\ workflow.results.processing_time = workflow.elapsed

====
